---- MODULE Spec2Model ----
(***************************************************************************)
(* Model of proxy_finder: the enhanced ProxyFetcher (filtering and         *)
(* de-duplication of fetched candidates), ProxyValidator.get_proxy_details *)
(* and the ProxyManager retry/rotation controller (get_proxy and           *)
(* rotate_proxies).                                                        *)
(*                                                                         *)
(* Conventions.  Python None and the empty string / empty list are both    *)
(* falsy and the code only tests their truthiness, so an absent country or *)
(* anonymity is "" and an absent country list is << >>.  A candidate is    *)
(* the dict the fetcher produces, restricted to the keys the pipeline      *)
(* reads: proxy, country, anonymity.  A validated record is the dict of    *)
(* get_proxy_details restricted to proxy, status, speed, country,          *)
(* anonymity, requires_auth.  Response times are in milliseconds; `speed`  *)
(* is in hundredths of a second (round(t, 2)), so 999.99 is 99999.         *)
(*                                                                         *)
(* A request is followed from its call to its result, one step per network *)
(* operation (a fetch_proxies call, the probes of one candidate): these    *)
(* are the only points at which the code waits.  Spec follows one request  *)
(* (get_proxy or rotate_proxies) made on a freshly constructed             *)
(* ProxyManager, LiveSpec the same when every call it waits for returns;   *)
(* FetcherSpec follows one ProxyFetcher.fetch_proxies call, submit by      *)
(* submit, FetcherLiveSpec the same with the calling thread scheduled,     *)
(* ValidatorSpec one get_proxy_details call probe by probe, StorageSpec a  *)
(* ProxyStorage.                                                           *)
(* BaseFilterSpec follows one BaseProxyFetcher._filter_and_deduplicate     *)
(* call entry by entry, FilterSpec one ProxyFilter.filter_proxies call,    *)
(* ExecutorSpec the worker pool of one fetch_proxies call task by task.    *)
(***************************************************************************)
EXTENDS Integers, Sequences, FiniteSets, TLC

\* ------------------------------------------------------------------ bounds
\* longest list a fetch round receives from the sources
MaxFetch == 2
\* largest num_proxies of a rotate_proxies request
MaxNum == 2
\* largest max_attempts of a rotate_proxies request
MaxAttempts == 2
\* largest max_retries a ProxyManager is constructed with
MaxRetries == 2
\* most candidates the sources of one stand-alone fetch round deliver together
MaxLen == 2
\* source tasks of one fetch round
NumSources == 2
\* longest list handed to save_proxies
MaxSave == 2
\* longest time one pass of the stamping loop of save_proxies takes, in ticks
MaxPassTicks == 1
\* most sources a fetcher is configured with when its worker pool is followed
PoolSources == 6

\* ------------------------------------------------------- program constants
\* unique_proxies[:100]
FetchLimit == 100
\* random.sample(all_proxies, min(10, len(all_proxies)))
RetrySample == 10
\* 'speed': 999.99, in hundredths of a second
UnvalidatedSpeed == 99999
\* response_time < 2.0, in milliseconds
EliteBelowMs == 2000
\* response_time < 5.0, in milliseconds
AnonymousBelowMs == 5000
\* socket ports are 0..65535; connect() raises OverflowError above
MaxPort == 65535
\* requests.Response.__bool__ is `ok`: status below 400
FirstErrorStatus == 400
\* ... and the first status above them: Response.ok is False for 400..599 only
EndErrorStatus == 600
\* ThreadPoolExecutor(max_workers=min(len(self.sources), 5))
PoolLimit == 5

None == [kind |-> "None"]

\* ---------------------------------------------------------------- strings
\* What the code can observe of an address string: whether it matches
\* ^\d{1,3}\.\d{1,3}\.\d{1,3}\.\d{1,3}:\d{1,5}$ , and the integer after the
\* colon (-1 when split(':') / int() would raise ValueError).
AddrInfo ==
  [a \in {"1.2.3.4:8080", "5.6.7.8:3128", "9.9.9.9:99999", "1.2.3.4:0", "999.1.1.1:8080",
          "not-a-proxy"} |->
     CASE a = "1.2.3.4:8080"  -> [matches |-> TRUE,  port |-> 8080]
       [] a = "5.6.7.8:3128"  -> [matches |-> TRUE,  port |-> 3128]
       [] a = "9.9.9.9:99999" -> [matches |-> TRUE,  port |-> 99999]
       [] a = "1.2.3.4:0"     -> [matches |-> TRUE,  port |-> 0]
       [] a = "999.1.1.1:8080" -> [matches |-> TRUE, port |-> 8080]
       [] a = "not-a-proxy"   -> [matches |-> FALSE, port |-> -1]]

Addresses == DOMAIN AddrInfo

\* re.match(r'^\d{1,3}\.\d{1,3}\.\d{1,3}\.\d{1,3}:\d{1,5}$', proxy_str)
re_match(proxy_str) == AddrInfo[proxy_str].matches

\* str.upper() on the country strings of the model
upper(s) ==
  CASE s = "us" -> "US"
    [] s = "de" -> "DE"
    [] s = "unknown" -> "UNKNOWN"
    [] OTHER -> s

\* self.country = country and country.upper()
fetcher_country(country) == IF country = "" THEN "" ELSE upper(country)

\* The ISO codes the fetcher knows: the values of _build_country_map
\* (restricted to the codes of the model; "ZZ" is not among them).
KnownCodes == {"US", "DE"}

\* ------------------------------------------------------ sequence helpers
RECURSIVE SelectSeqBy(_, _)
Range(s) == {s[i] : i \in 1..Len(s)}

Take(s, n) == IF n <= 0 THEN << >> ELSE SubSeq(s, 1, IF n < Len(s) THEN n ELSE Len(s))

SelectSeqBy(s, S) ==
  IF s = << >> THEN << >>
  ELSE IF Head(s) \in S THEN <<Head(s)>> \o SelectSeqBy(Tail(s), S)
       ELSE SelectSeqBy(Tail(s), S)

\* all sequences over S of length at most n
SeqsUpTo(S, n) == UNION {[1..k -> S] : k \in 0..n}

\* ------------------------------------------- ProxyFetcher (enhanced_fetcher)
\* The loop of _filter_and_deduplicate: st = [unique_proxies, seen], folded
\* over the input in order.
RECURSIVE dedup_loop(_, _, _, _)
dedup_step_buggy(unique, seen, proxy_data, country) ==
  IF ~re_match(proxy_data.proxy) THEN [unique |-> unique, seen |-> seen]
  ELSE IF country # "" /\ proxy_data.country # country
       THEN [unique |-> unique, seen |-> seen \cup {proxy_data.proxy}]
       ELSE [unique |-> Append(unique, proxy_data), seen |-> seen \cup {proxy_data.proxy}]

dedup_step_country_first(unique, seen, proxy_data, country) ==
  IF ~re_match(proxy_data.proxy) THEN [unique |-> unique, seen |-> seen]
  ELSE IF country # "" /\ proxy_data.country # country THEN [unique |-> unique, seen |-> seen]
  ELSE IF proxy_data.proxy \in seen THEN [unique |-> unique, seen |-> seen]
  ELSE [unique |-> Append(unique, proxy_data), seen |-> seen \cup {proxy_data.proxy}]

dedup_step(unique, seen, proxy_data, country) ==
  IF ~re_match(proxy_data.proxy) THEN [unique |-> unique, seen |-> seen]
  ELSE IF proxy_data.proxy \in seen THEN [unique |-> unique, seen |-> seen]
  ELSE IF country # "" /\ proxy_data.country # country
       THEN [unique |-> unique, seen |-> seen \cup {proxy_data.proxy}]
       ELSE [unique |-> Append(unique, proxy_data), seen |-> seen \cup {proxy_data.proxy}]

dedup_loop(proxies, unique, seen, country) ==
  IF proxies = << >> THEN unique
  ELSE LET st == dedup_step(unique, seen, Head(proxies), country)
       IN dedup_loop(Tail(proxies), st.unique, st.seen, country)

\* ProxyFetcher._filter_and_deduplicate, for a fetcher whose self.country is
\* `country`
filter_and_deduplicate(proxies, country) == dedup_loop(proxies, << >>, {}, country)

\* ProxyFetcher.fetch_proxies, given the combined list all_proxies the source
\* tasks delivered: ProxyFetchError when it is empty, else the filtered list
\* cut to 100.
\* The result is [raised, proxies]: raised = "ProxyFetchError" or "".
fetch_proxies_raises_on_no_match(all_proxies, country) ==
  IF filter_and_deduplicate(all_proxies, country) = << >>
  THEN [raised |-> "ProxyFetchError", proxies |-> << >>]
  ELSE [raised |-> "",
        proxies |-> Take(filter_and_deduplicate(all_proxies, country), FetchLimit)]

fetch_proxies(all_proxies, country) ==
  IF all_proxies = << >> THEN [raised |-> "ProxyFetchError", proxies |-> << >>]
  ELSE [raised |-> "",
        proxies |-> Take(filter_and_deduplicate(all_proxies, country), FetchLimit)]

\* max_workers of the executor of fetch_proxies, for n configured sources
max_workers_per_source(n) == n

max_workers(n) == IF n < PoolLimit THEN n ELSE PoolLimit

\* The source at position s of self.sources is parsed by _parse_text_list.
\* _build_sources orders the nine sources by priority, those that support the
\* country filter first when a country is set: proxyscrape, geonode,
\* proxy-list, speedx, shifty, jetkai, then mmpx12 and proxyscan (the other way
\* round with a country), then proxydb.
uses_text_list(s, country) ==
  \/ s \in {1, 3, 4, 5, 6}
  \/ s = 7 /\ country = ""
  \/ s = 8 /\ country # ""

\* What the adapters of a fetcher whose self.country is `country` put into the
\* list they return: with a country set, only entries whose country is exactly
\* that one (_parse_text_list tags every line with self.country; the other
\* adapters skip an item when country_code != self.country).
parser_emits_unscreened(proxy_data, country) == TRUE

parser_emits(proxy_data, country) == country = "" \/ proxy_data.country = country

\* A source task result is [kind, proxies]: kind "ok" with the parsed list, or
\* the exception the request or the parser raised ("error", "timeout").
\* _fetch_from_source: the parsed list, [] when anything raised
fetch_from_source(result) ==
  IF result.kind = "ok" THEN result.proxies ELSE << >>

\* one pass of the as_completed loop: all_proxies.extend(future.result())
extend_or_abort(all_proxies, result) ==
  IF result.kind = "ok" THEN all_proxies \o result.proxies ELSE << >>

extend_overwrites(all_proxies, result) == fetch_from_source(result)

extend(all_proxies, result) == all_proxies \o fetch_from_source(result)

\* ------------------------------------------ BaseProxyFetcher (base_fetcher)
\* _get_proxy_country when the address is not in geo_cache: the country of the
\* first entry of country_patterns the IP matches ('^(1\.|116\.|...)' is CN,
\* '^(5\.|46\.)' is DE), 'unknown' when none matches.
ip_pattern_country(proxy) ==
  CASE proxy \in {"1.2.3.4:8080", "1.2.3.4:0"} -> "CN"
    [] proxy = "5.6.7.8:3128" -> "DE"
    [] OTHER -> "unknown"

\* BaseProxyFetcher._get_proxy_country: [country, geo_cache], the value it
\* returns and self.geo_cache afterwards
get_proxy_country(geo_cache, proxy) ==
  IF proxy \in DOMAIN geo_cache
  THEN [country |-> geo_cache[proxy], geo_cache |-> geo_cache]
  ELSE [country |-> ip_pattern_country(proxy),
        geo_cache |-> geo_cache @@ (proxy :> ip_pattern_country(proxy))]

\* The locals of BaseProxyFetcher._filter_and_deduplicate and self.geo_cache
\* before the loop; stop is set when the loop has executed `break`.
\* (country_count is only logged and is left out.)
BaseLoopState == [unique |-> << >>, seen |-> {}, geo_cache |-> << >>, stop |-> FALSE]

\* One pass of the loop of BaseProxyFetcher._filter_and_deduplicate for a
\* fetcher whose self.country is `country`.  An entry without an address
\* ('') fails the pattern as well.  The entry kept through the heuristic is
\* the input dict with its country overwritten by the detected one.
base_step_no_heuristic(st, proxy_data, country, max_proxies) ==
  IF ~re_match(proxy_data.proxy) THEN st
  ELSE LET st1 == [st EXCEPT !.seen = @ \cup {proxy_data.proxy}]
       IN IF country # "" /\ upper(proxy_data.country) # upper(country)
          THEN st1
          ELSE [st1 EXCEPT !.unique = Append(@, proxy_data),
                           !.stop = Len(st.unique) + 1 >= max_proxies]

\* proxy_data after one pass of the loop: line 165 writes the detected country
\* into the caller's dictionary, whether the entry is kept or not
base_entry(st, proxy_data, country) ==
  IF /\ re_match(proxy_data.proxy)
     /\ country # "" /\ upper(proxy_data.country) # upper(country)
     /\ upper(proxy_data.country) = "UNKNOWN"
  THEN [proxy_data EXCEPT !.country = get_proxy_country(st.geo_cache, proxy_data.proxy).country]
  ELSE proxy_data

base_step(st, proxy_data, country, max_proxies) ==
  IF ~re_match(proxy_data.proxy) THEN st
  ELSE LET st1 == [st EXCEPT !.seen = @ \cup {proxy_data.proxy}]
       IN IF country # "" /\ upper(proxy_data.country) # upper(country)
          THEN IF upper(proxy_data.country) = "UNKNOWN"
               THEN LET d == get_proxy_country(st.geo_cache, proxy_data.proxy)
                    IN [st1 EXCEPT !.geo_cache = d.geo_cache,
                                   !.unique = IF upper(d.country) = upper(country)
                                              THEN Append(@, base_entry(st, proxy_data, country))
                                              ELSE @]
               ELSE st1
          ELSE [st1 EXCEPT !.unique = Append(@, proxy_data),
                           !.stop = Len(st.unique) + 1 >= max_proxies]

\* ---------------------------------------------------- ProxyFilter (filter)
\* any(int(part) < 0 or int(part) > 255 for part in ip_parts) is False
octets_in_range(proxy) == proxy # "999.1.1.1:8080"

\* ProxyFilter._is_valid_proxy_format: the pattern asks for a port of 2 to 5
\* digits (no address of the model has a leading zero, so 2 digits is 10 or
\* more), then the octets and the port range are checked.
is_valid_proxy_format(proxy) ==
  /\ re_match(proxy) /\ AddrInfo[proxy].port >= 10
  /\ octets_in_range(proxy)
  /\ AddrInfo[proxy].port >= 1 /\ AddrInfo[proxy].port <= MaxPort

\* one pass of the loop of ProxyFilter.filter_proxies: the entry is appended
filter_keeps(proxy_data, min_anonymity) ==
  /\ is_valid_proxy_format(proxy_data.proxy)
  /\ min_anonymity # "anonymous" =>
       /\ ~(proxy_data.anonymity = "transparent" /\ min_anonymity \in {"anonymous", "elite"})
       /\ ~(proxy_data.anonymity = "anonymous" /\ min_anonymity = "elite")

\* ProxyFilter.filter_proxies of a filter built with min_anonymity
RECURSIVE filter_proxies(_, _)
filter_proxies(proxies, min_anonymity) ==
  IF proxies = << >> THEN << >>
  ELSE (IF filter_keeps(Head(proxies), min_anonymity) THEN <<Head(proxies)>> ELSE << >>)
         \o filter_proxies(Tail(proxies), min_anonymity)

\* ------------------------------------------------ ProxyValidator (validator)
\* A probe is what the network answers for one candidate: sock is the outcome
\* of socket.connect ("open", or "refused" for socket.timeout/socket.error),
\* http[i] the outcome of requests.get on test_urls[i]: status = 0 when the
\* request raised, else the HTTP status, with ms the measured response time.
NumTestUrls == 5

NoResponse == [status |-> 0, ms |-> 0]

\* bool(response): None is falsy, a requests.Response is truthy iff ok, that
\* is unless its status is a client or server error (400..599)
truthy(response) ==
  /\ response.status # 0
  /\ ~(response.status >= FirstErrorStatus /\ response.status < EndErrorStatus)

\* response_time is a float: the double nearest to ms / 1000 seconds.  A double
\* has 53 significant bits, so it is m / 2^e with 2^52 <= m < 2^53, m being
\* ms * 2^e / 1000 rounded to the nearest integer: the remainder of ms * 2^e
\* modulo 1000 tells where the double lies: -1 below ms / 1000, 1 above it, 0
\* when ms / 1000 is a double.
double_error(ms) ==
  LET RECURSIVE halvings(_)
      halvings(k) == IF 1000 * 2 * k <= ms THEN 1 + halvings(2 * k) ELSE 0
      RECURSIVE doublings(_)
      doublings(x) == IF x < 1000 THEN 1 + doublings(2 * x) ELSE 0
      e == IF ms < 1000 THEN 52 + doublings(ms) ELSE 52 - halvings(1)
      RECURSIVE pow2_mod(_)
      pow2_mod(n) == IF n = 0 THEN 1 ELSE (2 * pow2_mod(n - 1)) % 1000
      r == ((ms % 1000) * pow2_mod(e)) % 1000
  IN IF r = 0 THEN 0 ELSE IF 2 * r < 1000 THEN -1 ELSE 1

\* round(response_time, 2) in hundredths of a second: the value of the double
\* rounded correctly, a value exactly half-way going to the even neighbour
round2(ms) ==
  LET q == ms \div 10
      d == ms % 10
  IN IF d < 5 THEN q
     ELSE IF d > 5 THEN q + 1
     ELSE IF double_error(ms) < 0 THEN q
     ELSE IF double_error(ms) > 0 THEN q + 1
     ELSE IF q % 2 = 0 THEN q ELSE q + 1

\* The locals of the `for test_url in test_urls` loop: st = [response,
\* response_time, auth_required], as they are before the first request.
InitialLoopState == [response |-> NoResponse, response_time |-> 0, auth_required |-> FALSE]

\* One pass of the loop with answer r: a raised request leaves st alone, any
\* response is kept with its response time, 407 sets auth_required.
http_step(st, r) ==
  IF r.status = 0 THEN st
  ELSE [response |-> r, response_time |-> r.ms,
        auth_required |-> (st.auth_required \/ r.status = 407)]

\* the two `break`s of the loop: status 407 and status 200
http_breaks_on_auth_only(r) == r.status = 407

http_breaks_on_success_only(r) == r.status = 200

http_breaks(r) == r.status = 407 \/ r.status = 200

RECURSIVE http_loop(_, _, _)
http_loop(http, i, st) ==
  IF i > Len(http) THEN st
  ELSE IF http_breaks(http[i]) THEN http_step(st, http[i])
       ELSE http_loop(http, i + 1, http_step(st, http[i]))

\* `if result['anonymity'] == 'unknown' and response:` ... latency thresholds
infer_anonymity_failed_is_transparent(anonymity, response, response_time) ==
  IF anonymity # "unknown" THEN anonymity
  ELSE IF ~truthy(response) THEN "transparent"
  ELSE IF response_time < EliteBelowMs THEN "elite"
  ELSE IF response_time < AnonymousBelowMs THEN "anonymous"
  ELSE "transparent"

infer_anonymity(anonymity, response, response_time) ==
  IF anonymity = "unknown" /\ truthy(response)
  THEN IF response_time < EliteBelowMs THEN "elite"
       ELSE IF response_time < AnonymousBelowMs THEN "anonymous"
       ELSE "transparent"
  ELSE anonymity

\* the LENIENT MODE record built when the socket check failed
lenient_record(proxy_data) ==
  [proxy |-> proxy_data.proxy, status |-> "unvalidated", speed |-> UnvalidatedSpeed,
   country |-> proxy_data.country, anonymity |-> proxy_data.anonymity,
   requires_auth |-> FALSE]

\* The exception raised inside the try block of get_proxy_details for this
\* address whatever the network answers ("" when there is none): ValueError
\* from split(':') / int(port), OverflowError from connect() on a port above
\* 65535.  Neither is a socket.error, so the `except Exception` of line 206
\* turns it into None.
probe_exception(proxy) ==
  IF AddrInfo[proxy].port < 0 THEN "ValueError"
  ELSE IF AddrInfo[proxy].port > MaxPort THEN "OverflowError"
  ELSE ""

\* lines 160-204: the result dictionary built from the locals the loop left
result_record(proxy_data, st) ==
  LET ok == truthy(st.response) IN
  [proxy |-> proxy_data.proxy,
   status |-> IF ok /\ st.response.status = 200 THEN "valid" ELSE "unvalidated",
   speed |-> IF ok THEN round2(st.response_time) ELSE UnvalidatedSpeed,
   country |-> proxy_data.country,
   anonymity |-> infer_anonymity(proxy_data.anonymity, st.response, st.response_time),
   requires_auth |-> st.auth_required]

\* ProxyValidator.get_proxy_details(proxy_data=proxy_data): a record, or None
get_proxy_details(proxy_data, probe) ==
  LET proxy == proxy_data.proxy IN
  IF proxy = "" THEN None
  ELSE IF probe_exception(proxy) # "" THEN None
  ELSE IF probe.sock = "refused" THEN lenient_record(proxy_data)
  ELSE result_record(proxy_data, http_loop(probe.http, 1, InitialLoopState))

\* ------------------------------------------- ProxyStorage (proxy_storage)
\* Time is counted in ticks of half a second: time.time() is a float, while
\* the stamp time.strftime('%Y-%m-%d %H:%M:%S') writes names a whole second.
TicksPerSecond == 2
\* max_age_seconds = max_age_hours * 3600
SecondsPerHour == 3600

\* An entry of the cache file is [kind, proxy, cached_at]: kind "dict" for a
\* dictionary, "other" for a JSON value that is none (a string, a number,
\* null); cached_at is the second the stamp names, NoStamp when the key is
\* absent or empty, BadStamp when strptime cannot parse it.  An entry of a
\* list handed to save_proxies has an id as well, the identity of the
\* caller's dictionary: one dictionary can stand at several positions.
NoStamp == -1
BadStamp == -2

\* The cache file is [kind, entries]: "missing", "corrupt" (no JSON document,
\* as after a write that broke off), or "list" with its entries.
MissingFile == [kind |-> "missing", entries |-> << >>]
CorruptFile == [kind |-> "corrupt", entries |-> << >>]
ListFile(entries) == [kind |-> "list", entries |-> entries]

\* The stamp is local time, written without zone or summer-time flag.  The
\* zone of the process is "UTC", or "DST": a zone that is on summer time, one
\* hour ahead of its standard time, until the second Fallback, when its
\* clocks are set back.  A stamp is counted in seconds of the zone's standard
\* time; the zone's clocks show the stamps of the hour from Fallback on twice.
Zones == {"UTC", "DST"}
Fallback == 2 * SecondsPerHour

repeated_hour(cached_at, zone) ==
  zone = "DST" /\ cached_at >= Fallback /\ cached_at < Fallback + SecondsPerHour

\* time.strftime('%Y-%m-%d %H:%M:%S') at `now`: the whole second, local time
format_time(now, zone) ==
  LET second == now \div TicksPerSecond
  IN IF zone = "DST" /\ second < Fallback THEN second + SecondsPerHour ELSE second

\* mktime is given tm_isdst = -1 and decides itself whether the stamp is
\* summer time.  For a stamp of the repeated hour the C library takes the
\* reading that has the UTC offset of its latest conversion in the process:
\* `offset`, "dst" or "std".
Offsets == {"std", "dst"}

\* time.mktime(time.strptime(cache_time_str, ...)), in ticks
parse_time(cached_at, zone, offset) ==
  IF zone = "DST"
       /\ (cached_at < Fallback \/ (repeated_hour(cached_at, zone) /\ offset = "dst"))
  THEN (cached_at - SecondsPerHour) * TicksPerSecond
  ELSE cached_at * TicksPerSecond

\* the offset mktime remembers after that conversion
mktime_offset(cached_at, zone, offset) ==
  IF zone # "DST" \/ repeated_hour(cached_at, zone) THEN offset
  ELSE IF cached_at < Fallback THEN "dst" ELSE "std"

\* for proxy in proxies: proxy['cached_at'] = time.strftime(...); the clock is
\* read anew in every pass, at times[i] in the i-th, and the stamp is written
\* into the caller's dictionary.  stamped_at is, for each position, the
\* reading of the last pass that wrote into the dictionary standing there.
stamped_at(proxies, times) ==
  [i \in 1..Len(proxies) |->
     times[CHOOSE j \in i..Len(proxies) :
             /\ proxies[j].id = proxies[i].id
             /\ \A k \in (j + 1)..Len(proxies) : proxies[k].id # proxies[i].id]]

\* the caller's list after the loop
stamp_all(proxies, times, zone) ==
  [i \in 1..Len(proxies) |->
     [proxies[i] EXCEPT !.cached_at = format_time(stamped_at(proxies, times)[i], zone)]]

\* json.dump(proxies, f): the document holds what the dictionaries hold, not
\* which of them are one object
json_dump(proxies) ==
  [i \in 1..Len(proxies) |->
     [kind |-> proxies[i].kind, proxy |-> proxies[i].proxy,
      cached_at |-> proxies[i].cached_at]]

\* ProxyStorage.save_proxies(proxies) at time now: the cache file afterwards.
\* io is what the file system does: "ok"; "open_fails", open(..., 'w') raises;
\* "dump_fails", the write breaks off after the file was truncated.
save_proxies_merges(file, proxies, times, zone, io) ==
  IF io = "open_fails" THEN file
  ELSE IF io = "dump_fails" THEN CorruptFile
  ELSE ListFile(file.entries \o json_dump(stamp_all(proxies, times, zone)))

save_proxies(file, proxies, times, zone, io) ==
  IF io = "open_fails" THEN file
  ELSE IF io = "dump_fails" THEN CorruptFile
  ELSE ListFile(json_dump(stamp_all(proxies, times, zone)))

\* max_age_seconds, in ticks
max_age(max_age_hours) == max_age_hours * SecondsPerHour * TicksPerSecond

\* age <= max_age_seconds
fresh(cached_at, now, max_age_hours, zone, offset) ==
  now - parse_time(cached_at, zone, offset) <= max_age(max_age_hours)

\* One pass of `for proxy in cached_proxies`: [proxies, aborted, offset],
\* offset being what mktime remembers.  A record that raises (not a
\* dictionary, unparseable stamp) or has no stamp is skipped by the inner
\* try / `continue`, before mktime is reached.
load_step_aborts(st, proxy, now, max_age_hours, zone) ==
  IF st.aborted THEN st
  ELSE IF proxy.kind # "dict" \/ proxy.cached_at = BadStamp THEN [st EXCEPT !.aborted = TRUE]
  ELSE IF proxy.cached_at = NoStamp THEN st
  ELSE [st EXCEPT
          !.proxies = IF fresh(proxy.cached_at, now, max_age_hours, zone, st.offset)
                      THEN Append(@, proxy) ELSE @,
          !.offset = mktime_offset(proxy.cached_at, zone, @)]

load_step(st, proxy, now, max_age_hours, zone) ==
  IF proxy.kind # "dict" THEN st
  ELSE IF proxy.cached_at = NoStamp THEN st
  ELSE IF proxy.cached_at = BadStamp THEN st
  ELSE [st EXCEPT
          !.proxies = IF fresh(proxy.cached_at, now, max_age_hours, zone, st.offset)
                      THEN Append(@, proxy) ELSE @,
          !.offset = mktime_offset(proxy.cached_at, zone, @)]

RECURSIVE load_loop(_, _, _, _, _)
load_loop(cached_proxies, st, now, max_age_hours, zone) ==
  IF cached_proxies = << >> THEN st
  ELSE load_loop(Tail(cached_proxies),
                 load_step(st, Head(cached_proxies), now, max_age_hours, zone),
                 now, max_age_hours, zone)

\* ProxyStorage.load_proxies(max_age_hours) at time now: the locals when it
\* returns, and the list returned
load_proxies_locals(file, max_age_hours, now, zone, offset) ==
  LET st == [proxies |-> << >>, aborted |-> FALSE, offset |-> offset]
  IN IF file.kind # "list" THEN st
     ELSE load_loop(file.entries, st, now, max_age_hours, zone)

load_proxies(file, max_age_hours, now, zone, offset) ==
  load_proxies_locals(file, max_age_hours, now, zone, offset).proxies

\* ------------------------------------------------ ProxyManager (rotation)
\* `except Exception`: the handler catches every exception the pipeline raises
except_only_requests(exc) == exc \notin {"ProxyFetchError", "NameError"}

except_Exception(exc) ==
  exc \in {"ProxyFetchError", "NameError", "ValueError", "OverflowError"}

\* valid_proxies.sort(key=lambda x: x.get('speed', inf)): a stable sort
RECURSIVE insert_by_speed(_, _)
RECURSIVE sort_by_speed(_)
insert_by_speed(sorted, x) ==
  IF sorted = << >> THEN <<x>>
  ELSE IF x.speed < Head(sorted).speed THEN <<x>> \o sorted
       ELSE <<Head(sorted)>> \o insert_by_speed(Tail(sorted), x)

sort_unsorted(s) == s

sort_by_speed(s) ==
  IF s = << >> THEN << >>
  ELSE insert_by_speed(sort_by_speed(SubSeq(s, 1, Len(s) - 1)), s[Len(s)])

\* return valid_proxies[:num_proxies]
truncate_none(s, num_proxies) == s

truncate(s, num_proxies) == Take(s, num_proxies)

\* self.countries = countries or ([country] if country else None)
manager_countries(country, countries) ==
  IF countries # << >> THEN countries
  ELSE IF country # "" THEN <<country>> ELSE << >>

\* target_countries = countries or self.countries
target_countries(countries, self_countries) ==
  IF countries # << >> THEN countries ELSE self_countries

\* `if target_countries and len(target_countries) > 1`
multi_country(countries) == countries # << >> /\ Len(countries) > 1

\* the while condition of rotate_proxies
budget(max_attempts, num_proxies) == max_attempts * num_proxies

loop_continues_per_call(n_valid, attempts, max_attempts, num_proxies) ==
  n_valid < num_proxies /\ attempts < max_attempts

loop_continues(n_valid, attempts, max_attempts, num_proxies) ==
  n_valid < num_proxies /\ attempts < budget(max_attempts, num_proxies)

\* attempts > max_attempts * num_proxies * 0.8
final_stretch(attempts, max_attempts, num_proxies) ==
  10 * attempts > 8 * budget(max_attempts, num_proxies)

\* new_proxies = [p for p in all_proxies if p.get('proxy') not in seen_proxies]
new_proxies_unfiltered(all_proxies, seen_proxies) == all_proxies

new_proxies_of(all_proxies, seen_proxies) ==
  SelectSeqBy(all_proxies, {p \in Range(all_proxies) : p.proxy \notin seen_proxies})

\* random.sample(all_proxies, k): k entries taken one after the other, each
\* from a position not taken before, so every list of k entries at distinct
\* positions.  Equal entries at different positions give the same lists, and
\* the first position of each stands for the others.
RECURSIVE samples(_, _)
samples(all_proxies, k) ==
  IF k = 0 THEN {<< >>}
  ELSE LET n == Len(all_proxies)
           firsts == {i \in 1..n : \A j \in 1..(i - 1) : all_proxies[j] # all_proxies[i]}
           without(i) == SubSeq(all_proxies, 1, i - 1) \o SubSeq(all_proxies, i + 1, n)
       IN UNION {{<<all_proxies[i]>> \o rest : rest \in samples(without(i), k - 1)} :
                   i \in firsts}

\* min(10, len(all_proxies))
sample_size_uncapped(all_proxies) == Len(all_proxies)

sample_size(all_proxies) ==
  IF RetrySample < Len(all_proxies) THEN RetrySample ELSE Len(all_proxies)

\* proxy_list = [p for p in proxy_list if p.get('anonymity') == self.anonymity]
anonymity_filter_off(proxy_list, anonymity) == proxy_list

anonymity_filter(proxy_list, anonymity) ==
  IF anonymity = "" THEN proxy_list
  ELSE SelectSeqBy(proxy_list, {p \in Range(proxy_list) : p.anonymity = anonymity})

\* ------------------------------------------------------------ the state
VARIABLES
  cfg,            \* constructor arguments: max_retries, country, countries, anonymity
  proxy_cache,    \* self.proxy_cache: address -> validated record
  pc,             \* position of the request
  call,           \* the request: op, num_proxies, max_attempts, countries (target_countries)
  attempt,        \* get_proxy: the loop index `attempt`
  attempts,       \* rotate_proxies: the counter `attempts`
  cidx,           \* position in the per-country loop (1-based)
  all_proxies,    \* rotate_proxies: all_proxies, the list fetched in the current round
  queue,          \* candidates of the current round still to be processed
  valid_proxies,  \* rotate_proxies: valid_proxies
  seen_proxies,   \* rotate_proxies: seen_proxies
  outcome,        \* what the finished request gave its caller
  last_probed,    \* the candidate most recently handed to the validator, or None
  absorbed,       \* the exception the latest step caught and logged, "" if none
  net_used,       \* a source fetch or a candidate probe has been issued
  f_pc,           \* one ProxyFetcher.fetch_proxies call: its position
  f_country,      \* the fetcher's constructor argument country
  f_done,         \* source -> what its task returned, NotDone while it runs
  f_order,        \* the sources in the order as_completed yielded them
  f_as_completed, \* the as_completed generator: started, finished, waiter
  f_all,          \* all_proxies
  f_out,          \* what fetch_proxies gave its caller
  v_pc,           \* one ProxyValidator.get_proxy_details call: its position
  v_data,         \* its argument proxy_data
  v_probe,        \* the probes issued so far and what the network answered
  v_st,           \* the locals response, response_time, auth_required
  v_out,          \* what it returned
  s_pc,           \* a ProxyStorage: "off" or "on"
  s_file,         \* the cache file
  s_now,          \* time.time(), in ticks
  s_zone,         \* the time zone of the process
  s_offset,       \* the UTC offset mktime remembers from its latest conversion
  s_saved,        \* the save_proxies call that wrote s_file: its list, when each
                  \* entry got the stamp it carries, and when the call ended
  s_last,         \* the latest ProxyStorage call: its arguments (the list of a save
                  \* as the call left it) and what it gave
  b_pc,           \* one BaseProxyFetcher._filter_and_deduplicate call: its position
  b_country,      \* self.country of the fetcher
  b_max,          \* its argument max_proxies
  b_proxies,      \* its argument proxies, the list of the caller
  b_i,            \* the position of the loop in proxies (1-based)
  b_st,           \* unique_proxies, seen, self.geo_cache, and whether it broke out
  p_pc,           \* one ProxyFilter.filter_proxies call: its position
  p_min,          \* self.min_anonymity of the filter
  p_proxies,      \* its argument proxies
  p_out,          \* what it returned
  e_pc,           \* the worker pool of one ProxyFetcher.fetch_proxies call: its position
  e_country,      \* self.country of the fetcher
  e_n,            \* len(self.sources)
  e_task,         \* source -> where its task is: queued, fetching, parsing, done
  e_wrote         \* the tasks that have written self.geo_cache

mgr_vars == <<cfg, proxy_cache, pc, call, attempt, attempts, cidx, all_proxies, queue,
              valid_proxies, seen_proxies, outcome, last_probed, absorbed, net_used>>
f_vars == <<f_pc, f_country, f_done, f_order, f_as_completed, f_all, f_out>>
v_vars == <<v_pc, v_data, v_probe, v_st, v_out>>
\* what the steps of a ProxyManager request, of a fetch round and of a
\* validation leave alone
s_vars == <<s_pc, s_file, s_now, s_zone, s_offset, s_saved, s_last>>
b_vars == <<b_pc, b_country, b_max, b_proxies, b_i, b_st>>
\* the components that are only followed on their own
p_vars == <<p_pc, p_min, p_proxies, p_out>>
e_vars == <<e_pc, e_country, e_n, e_task, e_wrote>>
x_vars == <<b_vars, p_vars, e_vars>>
other_vars == <<f_vars, v_vars, s_vars, x_vars>>
f_rest == <<mgr_vars, v_vars, s_vars, x_vars>>
v_rest == <<mgr_vars, f_vars, s_vars, x_vars>>
s_rest == <<mgr_vars, f_vars, v_vars, x_vars>>
b_rest == <<mgr_vars, f_vars, v_vars, s_vars, p_vars, e_vars>>
p_rest == <<mgr_vars, f_vars, v_vars, s_vars, b_vars, e_vars>>
e_rest == <<mgr_vars, f_vars, v_vars, s_vars, b_vars, p_vars>>
vars == <<mgr_vars, f_vars, v_vars, s_vars, x_vars>>

\* ------------------------------------------------------ the environment
\* candidates the sources deliver to a ProxyManager round
MgrCandidates ==
  { [proxy |-> "1.2.3.4:8080", country |-> "US", anonymity |-> "elite"],
    [proxy |-> "1.2.3.4:8080", country |-> "DE", anonymity |-> "unknown"],
    [proxy |-> "5.6.7.8:3128", country |-> "US", anonymity |-> "unknown"],
    [proxy |-> "9.9.9.9:99999", country |-> "US", anonymity |-> "elite"] }
RawLists == SeqsUpTo(MgrCandidates, MaxFetch)

\* answers of the network to the probes of one candidate
Raised == NoResponse
Probes ==
  { [sock |-> "refused", http |-> [i \in 1..NumTestUrls |-> Raised]],
    [sock |-> "open", http |-> [i \in 1..NumTestUrls |-> Raised]],
    [sock |-> "open",
     http |-> [i \in 1..NumTestUrls |-> IF i = 1 THEN [status |-> 200, ms |-> 1504] ELSE Raised]] }

\* constructor arguments
CountryConfigs ==
  { [country |-> "", countries |-> << >>, anonymity |-> ""],
    [country |-> "US", countries |-> << >>, anonymity |-> "elite"],
    [country |-> "", countries |-> <<"US">>, anonymity |-> ""],
    [country |-> "", countries |-> <<"US", "DE">>, anonymity |-> "elite"],
    [country |-> "ZZ", countries |-> << >>, anonymity |-> ""] }
Configs ==
  { [max_retries |-> MaxRetries, country |-> c.country, countries |-> c.countries,
     anonymity |-> c.anonymity] : c \in CountryConfigs }

\* the countries argument of rotate_proxies: none, one country, and a list of
\* one country more than the retry sample holds, so that the fetches of one
\* round can leave more than RetrySample candidates
CountryArgs == {<< >>, <<"DE">>, [i \in 1..(RetrySample + 1) |-> "DE"]}

NoCall == [op |-> "none", num_proxies |-> 0, max_attempts |-> 0, countries |-> << >>]
NoOutcome == [kind |-> "none", error |-> "", value |-> << >>]

self_countries == manager_countries(cfg.country, cfg.countries)

MgrIdle ==
  /\ proxy_cache = << >> /\ pc = "idle" /\ call = NoCall
  /\ attempt = 0 /\ attempts = 0 /\ cidx = 1
  /\ all_proxies = << >> /\ queue = << >> /\ valid_proxies = << >> /\ seen_proxies = {}
  /\ outcome = NoOutcome /\ last_probed = None /\ absorbed = "" /\ net_used = FALSE

\* a source task that has not completed
NotDone == [kind |-> "running", proxies |-> << >>]

\* as_completed before its first next(): `finished` is the set of futures
\* found done when the generator starts, still to be yielded; `waiter` is
\* waiter.finished_futures, the futures done since, in completion order
NotIterating == [started |-> FALSE, finished |-> {}, waiter |-> << >>]

FOff ==
  /\ f_pc = "off" /\ f_country = "" /\ f_done = << >> /\ f_order = << >>
  /\ f_as_completed = NotIterating
  /\ f_all = << >> /\ f_out = << >>

\* what one fetch_proxies() call of a fetcher built with `country` can give
fetch_results(country) == {fetch_proxies(raw, country) : raw \in RawLists}

\* the fetcher a get_proxy round calls: ProxyFetcher(country=country) in the
\* per-country loop, else self.fetcher
get_fetcher_country ==
  fetcher_country(IF multi_country(self_countries) THEN self_countries[cidx] ELSE cfg.country)

\* the fetcher a rotate_proxies round calls: ProxyFetcher(country=country_code)
\* in the per-country loop, else self.fetcher
rotate_fetcher_country ==
  fetcher_country(IF multi_country(call.countries) THEN call.countries[cidx] ELSE cfg.country)

\* no probe issued yet
NoProbe == [sock |-> "", http |-> << >>]

VOff ==
  /\ v_pc = "off" /\ v_data = None /\ v_probe = NoProbe
  /\ v_st = InitialLoopState /\ v_out = None

NoSave == [proxies |-> << >>, times |-> << >>, at |-> -1]
NoStorageCall ==
  [op |-> "none", proxies |-> << >>, max_age_hours |-> 0, io |-> "", at |-> 0,
   until |-> 0, before |-> MissingFile, result |-> << >>]

SOff ==
  /\ s_pc = "off" /\ s_file = MissingFile /\ s_now = 0
  /\ s_zone = "UTC" /\ s_offset = "std"
  /\ s_saved = NoSave /\ s_last = NoStorageCall

BOff ==
  /\ b_pc = "off" /\ b_country = "" /\ b_max = 0 /\ b_proxies = << >>
  /\ b_i = 1 /\ b_st = BaseLoopState

POff == p_pc = "off" /\ p_min = "anonymous" /\ p_proxies = << >> /\ p_out = << >>

EOff == e_pc = "off" /\ e_country = "" /\ e_n = 0 /\ e_task = << >> /\ e_wrote = {}

XOff == BOff /\ POff /\ EOff

\* ProxyManager.__init__
Init == cfg \in Configs /\ MgrIdle /\ FOff /\ VOff /\ SOff /\ XOff

\* --------------------------------------------------------------- get_proxy
raise_error(exc) == [kind |-> "raise", error |-> exc, value |-> << >>]

\* raise ProxyFinderError("Failed to retrieve a valid proxy after maximum retries.")
get_exhausted_returns_none == [kind |-> "return", error |-> "", value |-> None]

get_exhausted == raise_error("ProxyFinderError")

\* an exception no handler of the request catches ends it
propagate(exc) ==
  /\ pc' = "done" /\ outcome' = raise_error(exc) /\ absorbed' = ""
  /\ queue' = << >>
  /\ UNCHANGED <<attempt, attempts, cidx, all_proxies, valid_proxies>>

\* The end of one pass of `for attempt in range(self.max_retries)`, reached
\* with exception exc at the outer `except Exception` (line 104): the
\* ProxyFetchError of the main fetcher, or the NameError that the undefined
\* name static_proxies (line 87) raises when no candidate was returned.
get_round_end(exc) ==
  IF ~except_Exception(exc) THEN propagate(exc)
  ELSE /\ attempt' = attempt + 1
       /\ absorbed' = exc
       /\ queue' = << >>
       /\ cidx' = 1
       /\ UNCHANGED <<attempts, all_proxies, valid_proxies>>
       /\ IF attempt + 1 >= cfg.max_retries
          THEN pc' = "done" /\ outcome' = get_exhausted
          ELSE pc' = "get_fetch" /\ outcome' = outcome

\* After one fetcher's candidates are used up, exc being what the step caught
\* on the way (the inner `except Exception` of line 69, or the validator's
\* handler for the last candidate; "" if nothing): the next country, or the
\* rest of the round.
get_next_country_ends_round(exc) == get_round_end("NameError")

get_next_country(exc) ==
  IF multi_country(self_countries) /\ cidx < Len(self_countries)
  THEN /\ cidx' = cidx + 1 /\ pc' = "get_fetch" /\ queue' = << >>
       /\ absorbed' = exc
       /\ UNCHANGED <<attempt, attempts, all_proxies, valid_proxies, outcome>>
  ELSE get_round_end("NameError")

get_proxy_call ==
  /\ pc = "idle"
  /\ call' = [NoCall EXCEPT !.op = "get_proxy"]
  /\ attempt' = 0 /\ cidx' = 1 /\ queue' = << >>
  /\ IF cfg.max_retries <= 0
     THEN pc' = "done" /\ outcome' = get_exhausted
     ELSE pc' = "get_fetch" /\ outcome' = NoOutcome
  /\ UNCHANGED <<cfg, proxy_cache, attempts, all_proxies, valid_proxies, seen_proxies,
                 last_probed, absorbed, net_used, other_vars>>

\* country_fetcher.fetch_proxies() / self.fetcher.fetch_proxies(), then the
\* anonymity filter
get_proxy_fetch ==
  /\ pc = "get_fetch"
  /\ \E res \in fetch_results(get_fetcher_country) :
       LET multi == multi_country(self_countries)
           proxy_list == anonymity_filter(res.proxies, cfg.anonymity)
       IN IF res.raised # ""
          THEN IF multi
               THEN IF except_Exception(res.raised) THEN get_next_country(res.raised)
                    ELSE get_round_end(res.raised)
               ELSE get_round_end(res.raised)
          ELSE IF proxy_list = << >> THEN get_next_country("")
          ELSE /\ queue' = proxy_list /\ pc' = "get_validate" /\ absorbed' = ""
               /\ UNCHANGED <<attempt, attempts, cidx, all_proxies, valid_proxies, outcome>>
  /\ net_used' = TRUE
  /\ UNCHANGED <<cfg, proxy_cache, call, seen_proxies, last_probed, other_vars>>

\* one pass of `for proxy_data in proxy_list`
get_proxy_validate ==
  /\ pc = "get_validate"
  /\ \E probe \in Probes :
       LET proxy_data == Head(queue)
           proxy_details == get_proxy_details(proxy_data, probe)
       IN IF proxy_details # None
          THEN /\ pc' = "done"
               /\ outcome' = [kind |-> "return", error |-> "", value |-> proxy_details]
               /\ queue' = << >> /\ absorbed' = ""
               /\ UNCHANGED <<attempt, attempts, cidx, all_proxies, valid_proxies>>
          ELSE IF Tail(queue) # << >>
          THEN /\ queue' = Tail(queue)
               /\ absorbed' = probe_exception(proxy_data.proxy)
               /\ UNCHANGED <<attempt, attempts, cidx, all_proxies, valid_proxies, pc, outcome>>
          ELSE get_next_country(probe_exception(proxy_data.proxy))
  /\ last_probed' = Head(queue)
  /\ net_used' = TRUE
  /\ UNCHANGED <<cfg, proxy_cache, call, seen_proxies, other_vars>>

\* ---------------------------------------------------------- rotate_proxies
\* lines 213-221: raise when nothing was collected, else sort and cut
rotate_result_no_raise(valid, num_proxies) ==
  [kind |-> "return", error |-> "", value |-> truncate(sort_by_speed(valid), num_proxies)]

rotate_result(valid, num_proxies) ==
  IF valid = << >> THEN raise_error("ProxyFinderError")
  ELSE [kind |-> "return", error |-> "",
        value |-> truncate(sort_by_speed(valid), num_proxies)]

\* The while condition, evaluated with the values a round left behind: another
\* round, or the end of the request.
rotate_loop_head_keeps_count(valid, att, c) ==
  /\ valid_proxies' = valid
  /\ attempts' = attempts
  /\ queue' = << >>
  /\ cidx' = 1
  /\ all_proxies' = << >>
  /\ IF loop_continues(Len(valid), attempts, c.max_attempts, c.num_proxies)
     THEN pc' = "rot_fetch" /\ outcome' = NoOutcome
     ELSE pc' = "done" /\ outcome' = rotate_result(valid, c.num_proxies)

rotate_loop_head(valid, att, c) ==
  /\ valid_proxies' = valid
  /\ attempts' = att
  /\ queue' = << >>
  /\ cidx' = 1
  /\ all_proxies' = << >>
  /\ IF loop_continues(Len(valid), att, c.max_attempts, c.num_proxies)
     THEN pc' = "rot_fetch" /\ outcome' = NoOutcome
     ELSE pc' = "done" /\ outcome' = rotate_result(valid, c.num_proxies)

rotate_call ==
  /\ pc = "idle"
  /\ \E n \in 1..MaxNum, m \in 1..MaxAttempts, cs \in CountryArgs :
       LET c == [op |-> "rotate_proxies", num_proxies |-> n, max_attempts |-> m,
                 countries |-> target_countries(cs, self_countries)]
       IN call' = c /\ rotate_loop_head(<< >>, 0, c)
  /\ seen_proxies' = {}
  /\ UNCHANGED <<cfg, proxy_cache, attempt, last_probed, absorbed, net_used, other_vars>>

\* lines 169-181, with all_proxies as the fetches of the round left it
rotate_after_fetch(all) ==
  LET new_proxies == new_proxies_of(all, seen_proxies) IN
  IF new_proxies # << >>
  THEN /\ queue' = new_proxies /\ pc' = "rot_validate" /\ all_proxies' = all
       /\ UNCHANGED <<attempts, valid_proxies, cidx, outcome>>
  ELSE IF final_stretch(attempts + 1, call.max_attempts, call.num_proxies) /\ all # << >>
  THEN /\ \E sel \in samples(all, sample_size(all)) : queue' = sel
       /\ attempts' = attempts + 1
       /\ pc' = "rot_validate" /\ all_proxies' = all
       /\ UNCHANGED <<valid_proxies, cidx, outcome>>
  ELSE rotate_loop_head(valid_proxies, attempts + 1, call)

\* The `except Exception` of line 208: attempts += 1; continue
rotate_round_failed(exc) ==
  IF ~except_Exception(exc) THEN propagate(exc)
  ELSE rotate_loop_head(valid_proxies, attempts + 1, call)

\* one fetch_proxies call of the round: the next country's fetcher (its
\* error caught at line 151), or the main fetcher (its error caught at line 157)
rotate_fetch ==
  /\ pc = "rot_fetch"
  /\ \E res \in fetch_results(rotate_fetcher_country) :
       LET multi == multi_country(call.countries)
           all == IF multi THEN all_proxies \o res.proxies ELSE res.proxies
       IN /\ absorbed' = res.raised
          /\ IF res.raised # "" /\ ~except_Exception(res.raised)
             THEN rotate_round_failed(res.raised)
             ELSE IF multi /\ cidx < Len(call.countries)
             THEN /\ all_proxies' = all /\ cidx' = cidx + 1
                  /\ UNCHANGED <<pc, attempts, valid_proxies, queue, outcome>>
             ELSE IF ~multi /\ res.raised # "" /\ 2 * Len(valid_proxies) < call.num_proxies
             THEN /\ all_proxies' = all /\ pc' = "rot_static"
                  /\ UNCHANGED <<cidx, attempts, valid_proxies, queue, outcome>>
             ELSE rotate_after_fetch(all)
  /\ net_used' = TRUE
  /\ UNCHANGED <<cfg, proxy_cache, call, attempt, seen_proxies, last_probed, other_vars>>

\* self.static_fetcher.fetch_proxies(), the fallback of lines 160-167
rotate_static_fetch ==
  /\ pc = "rot_static"
  /\ \E res \in fetch_results("") :
       /\ absorbed' = res.raised
       /\ IF res.raised # "" /\ ~except_Exception(res.raised)
          THEN rotate_round_failed(res.raised)
          ELSE rotate_after_fetch(all_proxies \o res.proxies)
  /\ net_used' = TRUE
  /\ UNCHANGED <<cfg, proxy_cache, call, attempt, seen_proxies, last_probed, other_vars>>

\* the end of one pass of `for proxy_data in new_proxies`
rotate_next(valid, rest) ==
  IF rest # << >>
  THEN /\ valid_proxies' = valid /\ queue' = rest
       /\ UNCHANGED <<pc, attempts, cidx, all_proxies, outcome>>
  ELSE rotate_loop_head(valid, attempts + 1, call)

\* lines 190-194: the candidate is in the cache and more proxies are wanted
rotate_cache_hit ==
  /\ pc = "rot_validate"
  /\ LET proxy_str == Head(queue).proxy IN
       /\ proxy_str \in DOMAIN proxy_cache /\ Len(valid_proxies) < call.num_proxies
       /\ seen_proxies' = seen_proxies \cup {proxy_str}
       /\ rotate_next(Append(valid_proxies, proxy_cache[proxy_str]), Tail(queue))
  /\ absorbed' = ""
  /\ UNCHANGED <<cfg, proxy_cache, call, attempt, last_probed, net_used, other_vars>>

\* lines 196-204: validate the candidate, collect and cache a success
rotate_validate ==
  /\ pc = "rot_validate"
  /\ LET proxy_data == Head(queue)
         proxy_str == proxy_data.proxy
     IN /\ ~(proxy_str \in DOMAIN proxy_cache /\ Len(valid_proxies) < call.num_proxies)
        /\ seen_proxies' = seen_proxies \cup {proxy_str}
        /\ last_probed' = proxy_data
        /\ \E probe \in Probes :
             LET proxy_details == get_proxy_details(proxy_data, probe) IN
             IF proxy_details # None
             THEN /\ proxy_cache' = [a \in DOMAIN proxy_cache \cup {proxy_str} |->
                                       IF a = proxy_str THEN proxy_details ELSE proxy_cache[a]]
                  /\ absorbed' = ""
                  /\ rotate_next(Append(valid_proxies, proxy_details),
                                 IF Len(valid_proxies) + 1 >= call.num_proxies
                                 THEN << >> ELSE Tail(queue))
             ELSE /\ proxy_cache' = proxy_cache
                  /\ absorbed' = probe_exception(proxy_str)
                  /\ rotate_next(valid_proxies, Tail(queue))
  /\ net_used' = TRUE
  /\ UNCHANGED <<cfg, call, attempt, other_vars>>

Next ==
  \/ get_proxy_call
  \/ get_proxy_fetch
  \/ get_proxy_validate
  \/ rotate_call
  \/ rotate_fetch
  \/ rotate_static_fetch
  \/ rotate_cache_hit
  \/ rotate_validate

Spec == Init /\ [][Next]_vars

\* The same request when every fetch_proxies call and every probe it waits
\* for returns: each step of the request is eventually taken.
LiveSpec == Init /\ [][Next]_vars /\ WF_vars(Next)

\* ------------------------------------------- one ProxyFetcher.fetch_proxies
\* The round of one stand-alone fetcher, followed thread by thread: the caller
\* submits one task per source, then makes one pass of the as_completed loop
\* per finished task, then runs the rest of fetch_proxies; the workers finish
\* their tasks at any moment after the submit.
Sources == 1..NumSources

\* what the sources of a stand-alone fetcher deliver
FCandidates ==
  { [proxy |-> "1.2.3.4:8080", country |-> "US", anonymity |-> "unknown"],
    [proxy |-> "1.2.3.4:8080", country |-> "DE", anonymity |-> "unknown"],
    [proxy |-> "5.6.7.8:3128", country |-> "US", anonymity |-> "unknown"],
    [proxy |-> "5.6.7.8:3128", country |-> "us", anonymity |-> "unknown"],
    [proxy |-> "1.2.3.4:0", country |-> "US", anonymity |-> "unknown"],
    [proxy |-> "9.9.9.9:99999", country |-> "US", anonymity |-> "unknown"],
    [proxy |-> "not-a-proxy", country |-> "US", anonymity |-> "unknown"] }

\* What requests.get and the parser of one source come to: a parsed list
\* ("ok"), or an exception raised by the request, raise_for_status or the
\* parser ("error", "timeout"); at most `room` candidates.
SourceOutcomes(room) ==
  {[kind |-> k, proxies |-> << >>] : k \in {"error", "timeout"}}
    \cup {[kind |-> "ok", proxies |-> l] : l \in SeqsUpTo(FCandidates, room)}

FInit ==
  /\ cfg = [max_retries |-> 0, country |-> "", countries |-> << >>, anonymity |-> ""]
  /\ MgrIdle /\ VOff /\ SOff /\ XOff
  /\ f_pc = "ready"
  /\ f_country \in {"", "US"}
  /\ f_done = << >> /\ f_order = << >> /\ f_all = << >>
  /\ f_as_completed = NotIterating
  /\ f_out = << >>

\* fetch_proxies, lines 163-166: one executor.submit of the comprehension over
\* self.sources.  The task may run, and finish, while the later sources are
\* still being submitted; after the last submit the caller is at line 168.
fetch_proxies_submit ==
  /\ f_pc = "ready"
  /\ f_done' = Append(f_done, NotDone)
  /\ f_pc' = IF Len(f_done) + 1 = NumSources THEN "running" ELSE "ready"
  /\ UNCHANGED <<f_country, f_order, f_as_completed, f_all, f_out,
                 f_rest>>

\* the number of candidates the tasks of S have returned
RECURSIVE returned_by(_)
returned_by(S) ==
  IF S = {} THEN 0
  ELSE LET s == CHOOSE x \in S : TRUE
       IN Len(f_done[s].proxies) + returned_by(S \ {s})

\* a worker thread: _fetch_from_source returns for source s and the future is
\* set; a waiter installed by as_completed is notified
task_finishes(s) ==
  /\ f_pc \in {"ready", "running"} /\ s \in DOMAIN f_done /\ f_done[s] = NotDone
  /\ \E result \in SourceOutcomes(MaxLen - returned_by(DOMAIN f_done)) :
       f_done' = [f_done EXCEPT ![s] = result]
  /\ f_as_completed' =
       IF f_as_completed.started
       THEN [f_as_completed EXCEPT !.waiter = Append(@, s)]
       ELSE f_as_completed
  /\ UNCHANGED <<f_pc, f_country, f_order, f_all, f_out, f_rest>>

\* the main thread: the first next() of as_completed(future_to_source) notes
\* the futures that are already done and installs the waiter on the others
as_completed_starts ==
  /\ f_pc = "running" /\ ~f_as_completed.started
  /\ f_as_completed' = [started |-> TRUE,
                        finished |-> {s \in Sources : f_done[s] # NotDone},
                        waiter |-> << >>]
  /\ UNCHANGED <<f_pc, f_country, f_done, f_order, f_all, f_out,
                 f_rest>>

\* the main thread: one pass of the as_completed loop.  The futures found done
\* at the start are yielded in the order of a set, those done later in the
\* order they finished; the pass extends all_proxies by the future's result.
future_yielded(s) ==
  /\ f_pc = "running" /\ f_as_completed.started
  /\ IF f_as_completed.finished # {}
     THEN /\ s \in f_as_completed.finished
          /\ f_as_completed' = [f_as_completed EXCEPT !.finished = @ \ {s}]
     ELSE /\ f_as_completed.waiter # << >> /\ s = Head(f_as_completed.waiter)
          /\ f_as_completed' = [f_as_completed EXCEPT !.waiter = Tail(@)]
  /\ f_all' = extend(f_all, f_done[s])
  /\ f_order' = Append(f_order, s)
  /\ UNCHANGED <<f_pc, f_country, f_done, f_out, f_rest>>

\* the as_completed loop has yielded every future and the executor has shut
\* down: the rest of fetch_proxies
fetch_proxies_run ==
  /\ f_pc = "running"
  /\ Len(f_order) = NumSources
  /\ f_out' = fetch_proxies(f_all, fetcher_country(f_country))
  /\ f_pc' = "done"
  /\ UNCHANGED <<f_country, f_done, f_order, f_as_completed, f_all, f_rest>>

FNext ==
  \/ fetch_proxies_submit
  \/ \E s \in Sources : task_finishes(s)
  \/ as_completed_starts
  \/ \E s \in Sources : future_yielded(s)
  \/ fetch_proxies_run

FetcherSpec == FInit /\ [][FNext]_vars

\* The same round when the calling thread is scheduled whenever it can run.
\* Nothing makes a source answer: requests.get(url, timeout=self.timeout)
\* bounds the wait for the next bytes of a response, not the whole exchange,
\* so no step of a worker is required to happen.
FetcherLiveSpec ==
  /\ FInit /\ [][FNext]_vars
  /\ WF_vars(fetch_proxies_submit)
  /\ WF_vars(as_completed_starts)
  /\ WF_vars(\E s \in Sources : future_yielded(s))
  /\ WF_vars(fetch_proxies_run)

\* -------------------------------- one ProxyValidator.get_proxy_details call
\* candidates handed to the validator; the hint "http" is what _parse_proxyscan
\* makes of a ProxyScan item, item['Type'][0].lower()
VCandidates ==
  { [proxy |-> "1.2.3.4:8080", country |-> "US", anonymity |-> "elite"],
    [proxy |-> "5.6.7.8:3128", country |-> "DE", anonymity |-> "unknown"],
    [proxy |-> "5.6.7.8:3128", country |-> "DE", anonymity |-> "http"],
    [proxy |-> "9.9.9.9:99999", country |-> "US", anonymity |-> "elite"],
    [proxy |-> "not-a-proxy", country |-> "US", anonymity |-> "unknown"] }

\* what requests.get through the candidate can come to for one test URL
VHttpOutcomes ==
  { Raised,
    [status |-> 200, ms |-> 1504], [status |-> 200, ms |-> 6200],
    [status |-> 304, ms |-> 3000], [status |-> 407, ms |-> 300],
    [status |-> 500, ms |-> 100],
    [status |-> 200, ms |-> 625], [status |-> 600, ms |-> 1505] }

\* One call, followed probe by probe: the socket check, then one requests.get
\* per pass of the loop over test_urls, then the result.
VInit ==
  /\ cfg = [max_retries |-> 0, country |-> "", countries |-> << >>, anonymity |-> ""]
  /\ MgrIdle /\ FOff /\ SOff /\ XOff
  /\ v_pc = "ready"
  /\ v_data \in VCandidates
  /\ v_probe = NoProbe
  /\ v_st = InitialLoopState
  /\ v_out = None

\* lines 75-107: proxy.split(':') and the socket check.  An address that
\* cannot be split, or a port connect() rejects, ends the call with None at
\* the `except Exception` of line 206; a refused or timed-out connection ends
\* it with the LENIENT MODE record.
socket_check ==
  /\ v_pc = "ready"
  /\ IF v_data.proxy = "" \/ probe_exception(v_data.proxy) # ""
     THEN /\ v_probe' = v_probe /\ v_out' = None /\ v_pc' = "done"
     ELSE \E sock \in {"open", "refused"} :
            /\ v_probe' = [v_probe EXCEPT !.sock = sock]
            /\ IF sock = "refused"
               THEN v_out' = lenient_record(v_data) /\ v_pc' = "done"
               ELSE v_out' = v_out /\ v_pc' = "probing"
  /\ UNCHANGED <<v_data, v_st, v_rest>>

\* the loop is over: no test URL is left, or the latest answer made it break
loop_over ==
  \/ Len(v_probe.http) >= NumTestUrls
  \/ v_probe.http # << >> /\ http_breaks(v_probe.http[Len(v_probe.http)])

\* lines 129-158: one pass of the loop, requests.get on the next test URL
http_probe ==
  /\ v_pc = "probing" /\ ~loop_over
  /\ \E r \in VHttpOutcomes :
       /\ v_probe' = [v_probe EXCEPT !.http = Append(@, r)]
       /\ v_st' = http_step(v_st, r)
  /\ UNCHANGED <<v_pc, v_data, v_out, v_rest>>

\* lines 160-204: the loop is over, the result is built and returned
get_proxy_details_return ==
  /\ v_pc = "probing" /\ loop_over
  /\ v_out' = result_record(v_data, v_st)
  /\ v_pc' = "done"
  /\ UNCHANGED <<v_data, v_probe, v_st, v_rest>>

VNext == socket_check \/ http_probe \/ get_proxy_details_return

ValidatorSpec == VInit /\ [][VNext]_vars

\* ------------------------------------------------------- one ProxyStorage
\* the instants at which the clock is read, in ticks: around the start, one
\* hour and two hours
Instants == {0, 1, 2, 7200, 7201, 14400, 14401}

\* validated proxies handed to save_proxies.  `id` is the identity of the
\* dictionary object: a list can hold one object at several positions
\* (rotation.py:192 appends the cached object that line 199 appended before),
\* and two objects can be equal (ids 1 and 3).  The identity is not written.
SaveEntries ==
  { [id |-> 1, kind |-> "dict", proxy |-> "1.2.3.4:8080", cached_at |-> NoStamp],
    [id |-> 2, kind |-> "dict", proxy |-> "5.6.7.8:3128", cached_at |-> NoStamp],
    [id |-> 3, kind |-> "dict", proxy |-> "1.2.3.4:8080", cached_at |-> NoStamp] }
SaveLists == SeqsUpTo(SaveEntries, MaxSave)

\* a cache file found at start that this storage did not write
ForeignFiles ==
  { MissingFile, CorruptFile,
    ListFile(<<[kind |-> "dict", proxy |-> "1.2.3.4:8080", cached_at |-> BadStamp],
               [kind |-> "dict", proxy |-> "5.6.7.8:3128", cached_at |-> 0]>>),
    ListFile(<<[kind |-> "other", proxy |-> "", cached_at |-> NoStamp],
               [kind |-> "dict", proxy |-> "1.2.3.4:8080", cached_at |-> 0]>>),
    ListFile(<<[kind |-> "dict", proxy |-> "5.6.7.8:3128", cached_at |-> NoStamp],
               [kind |-> "dict", proxy |-> "1.2.3.4:8080", cached_at |-> 1]>>),
    ListFile(<<[kind |-> "dict", proxy |-> "1.2.3.4:8080", cached_at |-> 0],
               [kind |-> "dict", proxy |-> "5.6.7.8:3128", cached_at |-> 3600]>>) }

MaxAges == {0, 1, 2}

\* ProxyStorage.__init__
SInit ==
  /\ cfg = [max_retries |-> 0, country |-> "", countries |-> << >>, anonymity |-> ""]
  /\ MgrIdle /\ FOff /\ VOff /\ XOff
  /\ s_pc = "on"
  /\ s_file \in ForeignFiles
  /\ s_now = 0
  /\ s_zone \in Zones
  /\ s_offset \in (IF s_zone = "DST" THEN Offsets ELSE {"std"})
  /\ s_saved = NoSave
  /\ s_last = NoStorageCall

\* time passes between two calls
time_passes ==
  /\ s_pc = "on"
  /\ \E t \in Instants : t > s_now /\ s_now' = t
  /\ UNCHANGED <<s_pc, s_file, s_zone, s_offset, s_saved, s_last, s_rest>>

\* the clock readings of a stamping loop of n passes that starts at `from`
RECURSIVE ClockReadings(_, _)
ClockReadings(from, n) ==
  IF n = 0 THEN {<< >>}
  ELSE UNION {{<<from>> \o rest : rest \in ClockReadings(t, n - 1)} :
                t \in {u \in Instants : from <= u /\ u <= from + MaxPassTicks}}

\* storage.save_proxies(proxies); the stamping loop comes before open(), so
\* the caller's dictionaries are stamped whether or not the write succeeds
save_proxies_call ==
  /\ s_pc = "on"
  /\ \E proxies \in SaveLists, io \in {"ok", "open_fails", "dump_fails"} :
       \E times \in ClockReadings(s_now, Len(proxies)) :
         LET until == IF times = << >> THEN s_now ELSE times[Len(times)] IN
         /\ s_file' = save_proxies(s_file, proxies, times, s_zone, io)
         /\ s_now' = until
         /\ s_saved' = IF io = "ok"
                       THEN [proxies |-> proxies, times |-> stamped_at(proxies, times),
                             at |-> until]
                       ELSE IF io = "open_fails" THEN s_saved ELSE NoSave
         /\ s_last' = [op |-> "save", proxies |-> stamp_all(proxies, times, s_zone),
                       max_age_hours |-> 0,
                       io |-> io, at |-> s_now, until |-> until, before |-> s_file,
                       result |-> << >>]
  /\ UNCHANGED <<s_pc, s_zone, s_offset, s_rest>>

\* storage.load_proxies(max_age_hours)
load_proxies_call ==
  /\ s_pc = "on"
  /\ \E max_age_hours \in MaxAges :
       /\ s_last' = [op |-> "load", proxies |-> << >>, max_age_hours |-> max_age_hours,
                     io |-> "", at |-> s_now, until |-> s_now, before |-> s_file,
                     result |-> load_proxies(s_file, max_age_hours, s_now, s_zone, s_offset)]
       /\ s_offset' =
            load_proxies_locals(s_file, max_age_hours, s_now, s_zone, s_offset).offset
  /\ UNCHANGED <<s_pc, s_file, s_now, s_zone, s_saved, s_rest>>

SNext == time_passes \/ save_proxies_call \/ load_proxies_call

StorageSpec == SInit /\ [][SNext]_vars

\* ------------------------ one BaseProxyFetcher._filter_and_deduplicate call
\* The call CountryProxyFetcher.fetch_proxies makes on the combined list,
\* followed entry by entry.
BCandidates ==
  [proxy : {"5.6.7.8:3128", "1.2.3.4:8080", "not-a-proxy"},
   country : {"DE", "de", "US", "unknown"},
   anonymity : {"unknown"}]

\* the values of max_proxies: small ones and the default of fetch_proxies
BMaxProxies == (0..MaxNum) \cup {FetchLimit}

BInit ==
  /\ cfg = [max_retries |-> 0, country |-> "", countries |-> << >>, anonymity |-> ""]
  /\ MgrIdle /\ FOff /\ VOff /\ SOff /\ POff /\ EOff
  /\ b_pc = "loop"
  /\ b_country \in {"", "US", "DE"}
  /\ b_max \in BMaxProxies
  /\ b_proxies \in SeqsUpTo(BCandidates, MaxFetch)
  /\ b_i = 1 /\ b_st = BaseLoopState

\* one pass of `for proxy_data in proxies`; proxy_data is the caller's
\* dictionary, so what the pass writes into it shows in `proxies`
filter_entry ==
  /\ b_pc = "loop" /\ b_i <= Len(b_proxies) /\ ~b_st.stop
  /\ b_st' = base_step(b_st, b_proxies[b_i], b_country, b_max)
  /\ b_proxies' = [b_proxies EXCEPT ![b_i] = base_entry(b_st, @, b_country)]
  /\ b_i' = b_i + 1
  /\ UNCHANGED <<b_pc, b_country, b_max, b_rest>>

\* the loop is over, by exhaustion or by break: return unique_proxies
filter_return ==
  /\ b_pc = "loop" /\ (b_i > Len(b_proxies) \/ b_st.stop)
  /\ b_pc' = "done"
  /\ UNCHANGED <<b_country, b_max, b_proxies, b_i, b_st, b_rest>>

BNext == filter_entry \/ filter_return

BaseFilterSpec == BInit /\ [][BNext]_vars

\* ----------------------------------------- one ProxyFilter.filter_proxies call
PCandidates ==
  [proxy : {"1.2.3.4:8080", "1.2.3.4:0", "9.9.9.9:99999", "999.1.1.1:8080", "not-a-proxy"},
   country : {"US"},
   anonymity : {"transparent", "anonymous", "elite", "unknown"}]

\* ProxyFilter.__init__: min_anonymity defaults to 'anonymous'
PInit ==
  /\ cfg = [max_retries |-> 0, country |-> "", countries |-> << >>, anonymity |-> ""]
  /\ MgrIdle /\ FOff /\ VOff /\ SOff /\ BOff /\ EOff
  /\ p_pc = "ready"
  /\ p_min \in {"transparent", "anonymous", "elite"}
  /\ p_proxies \in SeqsUpTo(PCandidates, MaxFetch)
  /\ p_out = << >>

filter_proxies_call ==
  /\ p_pc = "ready"
  /\ p_out' = filter_proxies(p_proxies, p_min)
  /\ p_pc' = "done"
  /\ UNCHANGED <<p_min, p_proxies, p_rest>>

PNext == filter_proxies_call

FilterSpec == PInit /\ [][PNext]_vars

\* ------------------------- the worker pool of one ProxyFetcher.fetch_proxies
\* The tasks of one fetch round, followed through the executor: a task is
\* queued by submit, taken by a free worker in submission order, waits for
\* requests.get ("fetching"), runs the parser of its source ("parsing") and
\* returns.  _parse_text_list writes self.geo_cache, through
\* _get_proxy_country, for every line it reads.
Executing == {s \in DOMAIN e_task : e_task[s] \in {"fetching", "parsing"}}

EInit ==
  /\ cfg = [max_retries |-> 0, country |-> "", countries |-> << >>, anonymity |-> ""]
  /\ MgrIdle /\ FOff /\ VOff /\ SOff /\ BOff /\ POff
  /\ e_pc = "ready"
  /\ e_country \in {"", "US"}
  /\ e_n \in 1..PoolSources
  /\ e_task = << >> /\ e_wrote = {}

\* the pool is open: the caller is submitting or waiting for the futures
PoolOpen == e_pc \in {"ready", "running"}

\* one executor.submit(self._fetch_from_source, source) of the comprehension
\* over self.sources; the workers run while the later sources are submitted
executor_submit ==
  /\ e_pc = "ready"
  /\ e_task' = Append(e_task, "queued")
  /\ e_pc' = IF Len(e_task) + 1 = e_n THEN "running" ELSE "ready"
  /\ UNCHANGED <<e_country, e_n, e_wrote, e_rest>>

\* a worker of the pool takes the oldest queued task
task_starts(s) ==
  /\ PoolOpen /\ e_task[s] = "queued"
  /\ \A r \in 1..(s - 1) : e_task[r] # "queued"
  /\ Cardinality(Executing) < max_workers(e_n)
  /\ e_task' = [e_task EXCEPT ![s] = "fetching"]
  /\ UNCHANGED <<e_pc, e_country, e_n, e_wrote, e_rest>>

\* requests.get returns and the parser of the source is called, or it raises
\* and the task returns []
response_arrives(s) ==
  /\ PoolOpen /\ e_task[s] = "fetching"
  /\ \E next \in {"parsing", "done"} : e_task' = [e_task EXCEPT ![s] = next]
  /\ UNCHANGED <<e_pc, e_country, e_n, e_wrote, e_rest>>

\* _parse_text_list reads a line: self.geo_cache[proxy] = ... in _get_proxy_country
geo_cache_write(s) ==
  /\ PoolOpen /\ e_task[s] = "parsing" /\ uses_text_list(s, e_country)
  /\ s \notin e_wrote
  /\ e_wrote' = e_wrote \cup {s}
  /\ UNCHANGED <<e_pc, e_country, e_n, e_task, e_rest>>

\* the parser returns its list and the task ends
task_returns(s) ==
  /\ PoolOpen /\ e_task[s] = "parsing"
  /\ e_task' = [e_task EXCEPT ![s] = "done"]
  /\ UNCHANGED <<e_pc, e_country, e_n, e_wrote, e_rest>>

\* every future is done: the `with` block of fetch_proxies ends
executor_shutdown ==
  /\ e_pc = "running" /\ \A s \in 1..e_n : e_task[s] = "done"
  /\ e_pc' = "done"
  /\ UNCHANGED <<e_country, e_n, e_task, e_wrote, e_rest>>

ENext ==
  \/ executor_submit
  \/ \E s \in DOMAIN e_task : task_starts(s)
  \/ \E s \in DOMAIN e_task : response_arrives(s)
  \/ \E s \in DOMAIN e_task : geo_cache_write(s)
  \/ \E s \in DOMAIN e_task : task_returns(s)
  \/ executor_shutdown

ExecutorSpec == EInit /\ [][ENext]_vars

\* ================================================================ claims
IsRotate == call.op = "rotate_proxies"
IsGet == call.op = "get_proxy"
Returned == pc = "done" /\ outcome.kind = "return"
Raised_ == pc = "done" /\ outcome.kind = "raise"
Budget == budget(call.max_attempts, call.num_proxies)

\* C1: every list rotate_proxies returns is in non-decreasing order of speed.
C1_SortedBySpeed ==
  (IsRotate /\ Returned) =>
    \A i, j \in 1..Len(outcome.value) :
      i < j => outcome.value[i].speed <= outcome.value[j].speed

\* a request that collected a slow entry before a fast one and returned both
C1_Witness ==
  /\ IsRotate /\ Returned
  /\ Len(valid_proxies) >= 2 /\ Len(outcome.value) >= 2
  /\ valid_proxies[1].speed > valid_proxies[2].speed
  /\ outcome.value[1].speed < outcome.value[2].speed

\* C2: a list returned by rotate_proxies(num_proxies = n) has at most n entries.
C2_AtMostN ==
  (IsRotate /\ Returned) => Len(outcome.value) <= call.num_proxies

\* a request that took an entry from the cache, validated a further candidate
\* and so collected n + 1 entries before it returned
C2_Witness ==
  /\ IsRotate /\ Returned
  /\ Len(valid_proxies) > call.num_proxies
  /\ \E i, j \in 1..Len(valid_proxies) : i < j /\ valid_proxies[i] = valid_proxies[j]

\* C3: rotate_proxies raises ProxyFinderError exactly when the attempt budget
\* is exhausted with nothing collected; with the budget exhausted and between
\* 1 and n - 1 proxies collected it returns those proxies.
C3_RaiseIffExhaustedEmpty ==
  (IsRotate /\ pc = "done") =>
    /\ outcome.kind = "raise" <=> (attempts >= Budget /\ valid_proxies = << >>)
    /\ outcome.kind = "raise" => outcome.error = "ProxyFinderError"
    /\ (attempts >= Budget /\ valid_proxies # << >> /\ Len(valid_proxies) < call.num_proxies)
         => /\ outcome.kind = "return"
            /\ Len(outcome.value) = Len(valid_proxies)
            /\ Range(outcome.value) = Range(valid_proxies)

\* the budget was spent on rounds that fetched and probed, and nothing was collected
C3_Witness ==
  /\ IsRotate /\ Raised_ /\ attempts >= Budget /\ valid_proxies = << >>
  /\ last_probed # None

\* C4: rotate_proxies returns fewer than num_proxies entries only when the
\* attempts counter has reached max_attempts * num_proxies.
C4_PartialOnlyWhenBudgetSpent ==
  (IsRotate /\ Returned /\ Len(outcome.value) < call.num_proxies) => attempts >= Budget

\* a partial list returned after the budget ran out
C4_Witness ==
  /\ IsRotate /\ Returned
  /\ outcome.value # << >> /\ Len(outcome.value) < call.num_proxies
  /\ attempts >= Budget

\* C5: get_proxy runs at most max_retries rounds; a request that found no
\* validated proxy ends by raising ProxyFinderError after exactly max_retries
\* rounds; it never returns None.
C5_GetProxyBudget ==
  IsGet =>
    /\ attempt <= cfg.max_retries
    /\ pc \in {"get_fetch", "get_validate"} => attempt < cfg.max_retries
    /\ pc = "done" =>
         \/ outcome.kind = "return" /\ outcome.value # None
         \/ outcome = raise_error("ProxyFinderError") /\ attempt = cfg.max_retries

\* max_retries rounds ran, candidates were probed, and the request raised
C5_Witness ==
  /\ IsGet /\ Raised_ /\ attempt = cfg.max_retries /\ cfg.max_retries >= 2
  /\ last_probed # None

\* C6: with an anonymity tier configured, get_proxy hands the validator only
\* candidates whose anonymity hint is that tier, and the proxy it returns has
\* that tier.
C6_AnonymityFilter ==
  (IsGet /\ cfg.anonymity # "") =>
    /\ last_probed # None => last_probed.anonymity = cfg.anonymity
    /\ Returned => outcome.value.anonymity = cfg.anonymity

\* a proxy returned under a configured tier
C6_Witness ==
  /\ IsGet /\ Returned /\ cfg.anonymity = "elite"
  /\ last_probed # None /\ outcome.value.proxy = last_probed.proxy

\* C7 (as claimed): with a non-empty country list given, every proxy returned
\* by get_proxy and rotate_proxies has a country in that list.
CountryList == IF IsRotate THEN call.countries ELSE self_countries

C7_ReturnedCountryInList ==
  (Returned /\ CountryList # << >>) =>
    IF IsGet THEN outcome.value.country \in Range(CountryList)
    ELSE \A i \in 1..Len(outcome.value) : outcome.value[i].country \in Range(CountryList)

\* C8 (as claimed): a request naming a country code that is not recognized is
\* rejected before any fetch or probe is issued.
NamesUnrecognizedCode ==
  \/ cfg.country # "" /\ upper(cfg.country) \notin KnownCodes
  \/ \E i \in 1..Len(cfg.countries) : upper(cfg.countries[i]) \notin KnownCodes
  \/ \E i \in 1..Len(call.countries) : upper(call.countries[i]) \notin KnownCodes

C8_UnrecognizedCodeRejected ==
  NamesUnrecognizedCode =>
    /\ ~net_used
    /\ pc = "done" => outcome = raise_error("ConfigurationError")

\* C9: the only error get_proxy and rotate_proxies surface is ProxyFinderError;
\* a step that caught a per-source or per-candidate failure leaves the request
\* running, or ends it because its budget is spent.
C9_OnlyFinderErrorSurfaces ==
  /\ Raised_ => outcome.error = "ProxyFinderError"
  /\ (absorbed # "" /\ pc = "done") =>
       /\ IsGet => outcome = raise_error("ProxyFinderError") /\ attempt >= cfg.max_retries
       /\ IsRotate => ~loop_continues(Len(valid_proxies), attempts,
                                      call.max_attempts, call.num_proxies)

\* the main fetcher raised ProxyFetchError and the request goes on with the
\* static fetcher
C9_Witness == pc = "rot_static" /\ absorbed = "ProxyFetchError"

\* C10: no address appears twice in the list fetch_proxies returns.
C10_DistinctAddresses ==
  f_pc = "done" =>
    \A i, j \in 1..Len(f_out.proxies) :
      i # j => f_out.proxies[i].proxy # f_out.proxies[j].proxy

\* the sources delivered one well-formed address twice, and it was kept
C10_Witness ==
  /\ f_pc = "done" /\ f_out.proxies # << >>
  /\ \E i, j \in 1..Len(f_all) :
       /\ i < j /\ f_all[i].proxy = f_all[j].proxy
       /\ \E k \in 1..Len(f_out.proxies) : f_out.proxies[k].proxy = f_all[i].proxy

\* C11 (as claimed): every candidate fetch_proxies returns has an address of
\* the form IPv4:port with the port in 1..65535.
WellFormed(address) ==
  AddrInfo[address].matches /\ AddrInfo[address].port \in 1..MaxPort

C11_OnlyWellFormedAddresses ==
  f_pc = "done" =>
    \A i \in 1..Len(f_out.proxies) : WellFormed(f_out.proxies[i].proxy)

\* the candidates the sources that did not fail returned, in the order `order`
RECURSIVE Delivered(_)
Delivered(order) ==
  IF order = << >> THEN << >>
  ELSE (IF f_done[Head(order)].kind = "ok" THEN f_done[Head(order)].proxies ELSE << >>)
         \o Delivered(Tail(order))

Failed(s) == f_done[s].kind \in {"error", "timeout"}

\* C17: in a fetch round a source task that errors or times out contributes
\* no candidate and does not end the round: whatever sources fail and in
\* whatever order the tasks complete, the combined list is exactly the
\* candidates of the sources that did not fail, taken in the order their
\* futures were yielded, and the round goes on until every task has completed
\* and been yielded.
C17_FailedSourceContributesNothing ==
  f_pc \in {"running", "done"} =>
    /\ f_all = Delivered(f_order)
    /\ \A s \in Range(f_order) :
         f_done[s].kind = "ok" => Range(f_done[s].proxies) \subseteq Range(f_all)
    /\ f_pc = "done" =>
         /\ \A s \in Sources : f_done[s] # NotDone /\ s \in Range(f_order)
         /\ f_all # << >> => f_out.raised = ""

\* the second source answered first, one source failed, the other one's
\* candidates went on to filtering
C17_Witness ==
  /\ f_pc = "done" /\ f_order[1] > f_order[2]
  /\ \E s, t \in Sources : Failed(s) /\ f_done[t].kind = "ok" /\ f_done[t].proxies # << >>
  /\ f_out.raised = "" /\ f_all # << >>

\* C18 (as claimed): the call returns when every source task has completed or
\* the global deadline has elapsed, whichever comes first, so it returns
\* whether or not every task completes: with the calling thread scheduled, a
\* round in which a source never answers still ends.
C18_DeadlineCutsRound == <>(f_pc = "done")

\* C20: fetch_proxies raises ProxyFetchError exactly when every source
\* contributed no candidate; when candidates were fetched and filtering removed
\* them all it returns the empty list.
C20_RaiseIffNothingFetched ==
  f_pc = "done" =>
    /\ f_out.raised \in {"", "ProxyFetchError"}
    /\ f_out.raised = "ProxyFetchError" <=>
         \A s \in Sources : Failed(s) \/ f_done[s].proxies = << >>
    /\ f_out.raised = "ProxyFetchError" => f_out.proxies = << >>

\* candidates were fetched, none passed the filter, and the empty list came back
C20_Witness ==
  /\ f_pc = "done" /\ f_all # << >>
  /\ f_out.raised = "" /\ f_out.proxies = << >>

\* C19 (as claimed): no address appears twice in the list rotate_proxies
\* returns.
C19_ReturnedAddressesDistinct ==
  (IsRotate /\ Returned) =>
    \A i, j \in 1..Len(outcome.value) :
      i # j => outcome.value[i].proxy # outcome.value[j].proxy

\* C12 (as claimed): when the socket check of a candidate fails,
\* get_proxy_details returns None for it.
C12_FailedReachabilityIsInvalid ==
  (v_pc = "done" /\ v_probe.sock = "refused") => v_out = None

LastIsLoad == s_last.op = "load"
LastIsSave == s_last.op = "save"
Addrs(entries) == [i \in 1..Len(entries) |-> entries[i].proxy]

\* the entries of `list` at the positions in `at`, in the order of the list
RECURSIVE EntriesAt(_, _, _)
EntriesAt(list, at, i) ==
  IF i > Len(list) THEN << >>
  ELSE (IF i \in at THEN <<list[i]>> ELSE << >>) \o EntriesAt(list, at, i + 1)

\* the age bound of the latest call, in ticks
AgeBound == s_last.max_age_hours * SecondsPerHour * TicksPerSecond
WellStamped(entry) == entry.kind = "dict" /\ entry.cached_at >= 0

\* the instants the stamp of a record can name in the zone of the process
Readings(entry) == {parse_time(entry.cached_at, s_zone, o) : o \in Offsets}

\* The second in which record i of the cache file was stamped, in ticks: by
\* the save that wrote the file (the last pass of its loop over the dictionary
\* at position i, which is the stamp the file carries), or, for a file found
\* at the start, the second its stamp names.
CachedAt(i) ==
  IF s_saved # NoSave
  THEN (s_saved.times[i] \div TicksPerSecond) * TicksPerSecond
  ELSE CHOOSE t \in Readings(s_last.before.entries[i]) : TRUE

\* C13 (as claimed): save_proxies(X) followed by load_proxies(max_age_hours)
\* with max_age at least the time elapsed since the save returns the entries
\* of X, in order, each with a cached_at stamp.
C13_SaveLoadRoundTrip ==
  (LastIsLoad /\ s_saved # NoSave /\ AgeBound >= s_last.at - s_saved.at) =>
    /\ Addrs(s_last.result) = Addrs(s_saved.proxies)
    /\ \A i \in 1..Len(s_last.result) : WellStamped(s_last.result[i])

\* C14: after save_proxies(X) then save_proxies(Y) the cache file holds exactly
\* the entries of Y, each stamped with the local time of a second the second
\* save ran in, and none that was only in X.
C14_SaveOverwrites ==
  (LastIsSave /\ s_last.io = "ok") =>
    /\ s_file.kind = "list"
    /\ Addrs(s_file.entries) = Addrs(s_last.proxies)
    /\ \A i \in 1..Len(s_file.entries) :
         /\ s_file.entries[i].kind = "dict"
         /\ \E t \in Instants :
              /\ s_last.at <= t /\ t <= s_last.until
              /\ s_file.entries[i].cached_at = format_time(t, s_zone)

\* a second save, later than the first, of a list without an address the
\* first one stored; the second changed while it stamped its two entries
C14_Witness ==
  /\ LastIsSave /\ s_last.io = "ok" /\ Len(s_last.proxies) = 2
  /\ s_file.entries[1].cached_at < s_file.entries[2].cached_at
  /\ s_last.before.kind = "list"
  /\ \E i \in 1..Len(s_last.before.entries) :
       /\ WellStamped(s_last.before.entries[i])
       /\ s_last.before.entries[i].cached_at < s_file.entries[1].cached_at
       /\ s_last.before.entries[i].proxy \notin Range(Addrs(s_last.proxies))

\* C15 (as claimed): load_proxies(max_age_hours) returns exactly the persisted
\* records whose age, now minus the second they were stamped in, is at most
\* max_age_hours * 3600 seconds, in file order; an older record is left out;
\* the cache file is as it was.
C15_LoadFiltersByAge ==
  LastIsLoad =>
    /\ s_file = s_last.before
    /\ s_last.before.kind = "list" =>
         s_last.result =
           EntriesAt(s_last.before.entries,
                     {i \in 1..Len(s_last.before.entries) :
                        /\ WellStamped(s_last.before.entries[i])
                        /\ s_last.at - CachedAt(i) <= AgeBound},
                     1)

\* C16: load_proxies does not fail on a malformed record (no cached_at, an
\* unparseable stamp, not a dictionary): it returns every well-formed record
\* of the file that is fresh however its stamp is read, and nothing but
\* well-formed records of the file that are fresh under a reading of their
\* stamp; it returns the empty list for a missing or unreadable file.
C16_LoadSkipsMalformed ==
  LastIsLoad =>
    /\ s_last.before.kind # "list" => s_last.result = << >>
    /\ \A e \in Range(s_last.before.entries) :
         (WellStamped(e) /\ \A t \in Readings(e) : s_last.at - t <= AgeBound)
           => e \in Range(s_last.result)
    /\ \A e \in Range(s_last.result) :
         /\ WellStamped(e) /\ e \in Range(s_last.before.entries)
         /\ \E t \in Readings(e) : s_last.at - t <= AgeBound

\* a malformed record came first in the file and the fresh record after it
\* was returned
C16_Witness ==
  /\ LastIsLoad /\ s_last.before.kind = "list" /\ Len(s_last.before.entries) >= 2
  /\ ~WellStamped(s_last.before.entries[1])
  /\ s_last.before.entries[2] \in Range(s_last.result)

\* C21 (as claimed): throughout rotate_proxies the attempts counter never
\* exceeds the budget max_attempts * num_proxies (every round, a final-stretch
\* retry round included, adding exactly one to it).
C21_AttemptsWithinBudget == IsRotate => attempts <= Budget

\* C22: every rotate_proxies request whose fetches and probes return comes to
\* an end, with num_proxies entries collected or the attempts counter at the
\* budget, and once it has ended it issues no fetch and no probe.
C22_RotateTerminates ==
  /\ (IsRotate /\ pc # "done") ~>
       (pc = "done" /\ (Len(valid_proxies) >= call.num_proxies \/ attempts >= Budget))
  /\ [][(IsRotate /\ pc = "done") =>
          (pc' = "done" /\ UNCHANGED <<last_probed, seen_proxies, proxy_cache, outcome>>)]_vars

\* a request that went through several fetch rounds and probes before it
\* ended with its budget spent and fewer entries than asked for
C22_Witness ==
  /\ IsRotate /\ pc = "done" /\ attempts >= Budget /\ Budget >= 2
  /\ Len(valid_proxies) < call.num_proxies /\ last_probed # None

\* the entries of `sel` stand at distinct positions of `list`: no entry
\* occurs more often in `sel` than in `list`
Occurrences(e, list) == Cardinality({i \in 1..Len(list) : list[i] = e})
IsSampleOf(sel, list) ==
  \A e \in Range(sel) : Occurrences(e, sel) <= Occurrences(e, list)

IsProperSuffix(t, s) ==
  Len(t) < Len(s) /\ t = SubSeq(s, Len(s) - Len(t) + 1, Len(s))

\* C23: the candidates a rotate_proxies round processes are chosen when its
\* fetches are over: those whose address was not seen before the round; or,
\* when there is none and the attempts counter is above 80% of the budget, at
\* most 10 entries sampled from the list fetched in the round: all of them
\* when the list holds 10 or fewer, 10 of them when it holds more.  Only these
\* are probed or added to the result in the round.
C23_SeenSkippedUnlessFinalStretch ==
  [][IsRotate' =>
       /\ (pc # "rot_validate" /\ pc' = "rot_validate") =>
            \/ /\ queue' # << >>
               /\ \A i \in 1..Len(queue') : queue'[i].proxy \notin seen_proxies
               /\ queue' = SelectSeqBy(all_proxies',
                             {p \in Range(all_proxies') : p.proxy \notin seen_proxies})
            \/ /\ \A i \in 1..Len(all_proxies') : all_proxies'[i].proxy \in seen_proxies
               /\ 10 * attempts' > 8 * (call'.max_attempts * call'.num_proxies)
               /\ Len(queue') <= RetrySample
               /\ Len(queue') = RetrySample \/ Len(queue') = Len(all_proxies')
               /\ IsSampleOf(queue', all_proxies')
       /\ (pc = "rot_validate" /\ pc' = "rot_validate") => IsProperSuffix(queue', queue)
       /\ last_probed' # last_probed => (pc = "rot_validate" /\ last_probed' = Head(queue))
       /\ valid_proxies' # valid_proxies =>
            /\ pc = "rot_validate"
            /\ \E x \in {Head(queue).proxy} :
                 /\ Len(valid_proxies') = Len(valid_proxies) + 1
                 /\ valid_proxies'[Len(valid_proxies')].proxy = x
                 /\ SubSeq(valid_proxies', 1, Len(valid_proxies)) = valid_proxies
  ]_vars

\* a final-stretch round under way: the round fetched more than 10
\* candidates, every one of them seen before, and 10 of them are about to be
\* retried
C23_Witness ==
  /\ IsRotate /\ pc = "rot_validate" /\ 10 * attempts > 8 * Budget
  /\ Len(all_proxies) > RetrySample
  /\ \A i \in 1..Len(all_proxies) : all_proxies[i].proxy \in seen_proxies
  /\ Len(queue) = RetrySample /\ last_probed # None

\* C24 (as claimed): a candidate of rotate_proxies whose address is in
\* proxy_cache is not handed to the validator: the cached record is appended
\* to the result and the cache stays as it is; and a candidate the validator
\* accepted is in the cache, under its address, when the next one is taken up.
C24_CachedNeverRevalidated ==
  [][(IsRotate /\ pc = "rot_validate") =>
       LET proxy_str == Head(queue).proxy IN
       IF proxy_str \in DOMAIN proxy_cache
       THEN /\ valid_proxies' = Append(valid_proxies, proxy_cache[proxy_str])
            /\ proxy_cache' = proxy_cache
            /\ last_probed' = last_probed
       ELSE /\ last_probed' = Head(queue)
            /\ valid_proxies' # valid_proxies =>
                 /\ proxy_str \in DOMAIN proxy_cache'
                 /\ proxy_cache'[proxy_str] = valid_proxies'[Len(valid_proxies')]
  ]_vars

\* the validation of a candidate is Invalid: get_proxy_details gives None
\* whatever the network answers
InvalidCandidate(c) == \A probe \in Probes : get_proxy_details(c, probe) = None

\* C25: a get_proxy round takes the countries in the order given and the
\* candidates of each fetch in the order the filter left them, one at a time;
\* it returns the record of the first candidate whose validation is not
\* Invalid, and nothing is probed after that.
C25_GetProxyFirstValidInOrder ==
  [][IsGet =>
       /\ (pc = "get_fetch" /\ pc' = "get_validate") =>
            /\ cidx' = cidx /\ attempt' = attempt /\ queue' # << >>
            /\ \A i \in 1..Len(queue') :
                 /\ multi_country(self_countries) =>
                      queue'[i].country = upper(self_countries[cidx])
                 /\ cfg.anonymity # "" => queue'[i].anonymity = cfg.anonymity
       /\ (pc = "get_fetch" /\ pc' = "get_fetch") =>
            \/ cidx' = cidx + 1 /\ cidx' <= Len(self_countries) /\ attempt' = attempt
            \/ cidx' = 1 /\ attempt' = attempt + 1
       /\ pc = "get_validate" =>
            /\ last_probed' = Head(queue)
            /\ IF ~InvalidCandidate(Head(queue))
               THEN /\ pc' = "done" /\ outcome'.kind = "return"
                    /\ outcome'.value # None
                    /\ outcome'.value.proxy = Head(queue).proxy
               ELSE IF Tail(queue) # << >>
               THEN pc' = "get_validate" /\ queue' = Tail(queue)
                    /\ cidx' = cidx /\ attempt' = attempt
               ELSE IF multi_country(self_countries) /\ cidx < Len(self_countries)
               THEN pc' = "get_fetch" /\ cidx' = cidx + 1 /\ attempt' = attempt
               ELSE pc' \in {"get_fetch", "done"} /\ cidx' = 1 /\ attempt' = attempt + 1
       /\ pc = "done" => last_probed' = last_probed
  ]_vars

\* the first candidate of a fetch was found Invalid and the second, which is
\* not, is the next to be probed
C25_Witness ==
  /\ IsGet /\ pc = "get_validate" /\ last_probed # None
  /\ InvalidCandidate(last_probed) /\ absorbed # ""
  /\ ~InvalidCandidate(Head(queue))

\* the functional probes issued so far and their number
Http == v_probe.http
Issued == Len(v_probe.http)
Answered(status) == \E i \in 1..Issued : Http[i].status = status

\* C26: get_proxy_details issues functional probes only after the socket check
\* succeeded, one test URL after the other; it issues none after the first
\* that answers 200; its result has status valid, with the latency of that
\* attempt as speed, exactly when a test URL answered 200, and status
\* unvalidated otherwise.
C26_FunctionalProbesStopAtSuccess ==
  /\ Issued > 0 => v_probe.sock = "open"
  /\ Issued <= NumTestUrls
  /\ \A i \in 1..Issued : Http[i].status = 200 => i = Issued
  /\ (v_pc = "done" /\ v_out # None) =>
       /\ v_out.status = "valid" <=> Answered(200)
       /\ Answered(200) => v_out.speed * 10 \in (Http[Issued].ms - 5)..(Http[Issued].ms + 5)
       /\ ~Answered(200) => v_out.status = "unvalidated"

\* two test URLs failed, the third answered 200 and no further one was tried
C26_Witness ==
  /\ v_pc = "done" /\ v_out # None /\ v_out.status = "valid"
  /\ Issued = 3 /\ Http[1].status = 0 /\ Http[2].status = 500 /\ Http[3].status = 200

\* C27: when a test URL answers 407 through the candidate, get_proxy_details
\* issues no further probe for it and the record it returns has requires_auth
\* true; the record of a candidate that never answered 407 has requires_auth
\* false.
C27_AuthStopsProbing ==
  /\ \A i \in 1..Issued : Http[i].status = 407 => i = Issued
  /\ (v_pc = "done" /\ v_out # None) => (v_out.requires_auth <=> Answered(407))

\* the second test URL answered 407: the call ended there, three test URLs
\* untried
C27_Witness ==
  /\ v_pc = "done" /\ v_out # None /\ v_out.requires_auth
  /\ Issued = 2 /\ Http[1].status = 500 /\ Http[2].status = 407

\* the latest test URL that gave a response, 0 when none did, and whether that
\* response is a success (any status but a client or server error, 400..599)
LastAnswered ==
  IF \E i \in 1..Issued : Http[i].status # 0
  THEN CHOOSE i \in 1..Issued :
         Http[i].status # 0 /\ \A j \in (i + 1)..Issued : Http[j].status = 0
  ELSE 0
GotSuccess ==
  /\ LastAnswered > 0
  /\ Http[LastAnswered].status \notin FirstErrorStatus..(EndErrorStatus - 1)

\* the tier the latency thresholds give
TierOf(ms) ==
  IF ms < EliteBelowMs THEN "elite"
  ELSE IF ms < AnonymousBelowMs THEN "anonymous" ELSE "transparent"

\* C28 (as claimed): with the hint unknown, the record of get_proxy_details has
\* the tier the measured latency gives, and transparent when every functional
\* probe failed; a hint that was supplied is kept.
C28_TierFromLatencyOrTransparent ==
  (v_pc = "done" /\ v_out # None /\ v_probe.sock = "open") =>
    IF v_data.anonymity # "unknown" THEN v_out.anonymity = v_data.anonymity
    ELSE IF GotSuccess THEN v_out.anonymity = TierOf(Http[LastAnswered].ms)
    ELSE v_out.anonymity = "transparent"

\* C28 (amended): with the hint unknown, the record has the tier the latency
\* of the latest response gives when that response is a success, and keeps
\* unknown when no test URL gave a successful response or the socket check
\* failed; a hint that was supplied is kept.
C28_TierFromLatencyOrUnknown ==
  (v_pc = "done" /\ v_out # None) =>
    IF v_data.anonymity # "unknown" THEN v_out.anonymity = v_data.anonymity
    ELSE IF v_probe.sock = "open" /\ GotSuccess
    THEN v_out.anonymity = TierOf(Http[LastAnswered].ms)
    ELSE v_out.anonymity = "unknown"

\* every functional probe of a candidate without a hint failed, and its
\* record says unknown
C28_Witness ==
  /\ v_pc = "done" /\ v_out # None /\ v_data.anonymity = "unknown"
  /\ v_probe.sock = "open" /\ Issued = NumTestUrls /\ ~GotSuccess
  /\ v_out.anonymity = "unknown"

\* the anonymity values of a validated record
AnonymityTiers == {"transparent", "anonymous", "elite", "unknown"}

\* C29 (as claimed): every record get_proxy_details produces has an anonymity
\* among transparent, anonymous, elite, unknown and a speed of at least 0,
\* whatever hint the source adapter attached to the candidate.
C29_RecordDomain ==
  (v_pc = "done" /\ v_out # None) =>
    /\ v_out.anonymity \in AnonymityTiers
    /\ v_out.speed >= 0

\* the positions of the combined list that hold the first entry with their
\* address
FirstOccurrences ==
  {i \in 1..Len(f_all) : \A j \in 1..(i - 1) : f_all[j].proxy # f_all[i].proxy}

\* C30: the list _filter_and_deduplicate returns is a subsequence of its
\* input, and the first occurrence of an address decides for the address: the
\* output holds exactly the first occurrences that have a well-formed address
\* and pass the country filter, so an address whose first entry has another
\* country is absent even when a later entry has the country asked for.
C30_FirstOccurrenceDecides ==
  (f_pc = "done" /\ f_out.raised = "") =>
    LET country == fetcher_country(f_country)
        kept == {i \in FirstOccurrences :
                   /\ AddrInfo[f_all[i].proxy].matches
                   /\ country # "" => f_all[i].country = country}
    IN f_out.proxies = EntriesAt(f_all, kept, 1)

\* an address came first with another country and then with the country asked
\* for, and is not in the output
C30_Witness ==
  /\ f_pc = "done" /\ f_out.raised = "" /\ f_country # ""
  /\ \E i, j \in 1..Len(f_all) :
       /\ i < j /\ f_all[i].proxy = f_all[j].proxy
       /\ AddrInfo[f_all[i].proxy].matches
       /\ f_all[i].country # f_country /\ f_all[j].country = f_country
       /\ \A k \in 1..Len(f_out.proxies) : f_out.proxies[k].proxy # f_all[i].proxy

\* the addresses of a list of entries, in order
AddressesOf(entries) == [i \in 1..Len(entries) |-> entries[i].proxy]

\* C31 (as claimed): no address appears twice in the list
\* BaseProxyFetcher._filter_and_deduplicate returns, with or without a country
\* filter.
C31_BaseOutputDistinct ==
  b_pc = "done" =>
    \A i, j \in 1..Len(b_st.unique) :
      i # j => b_st.unique[i].proxy # b_st.unique[j].proxy

\* t is a subsequence of s
RECURSIVE IsSubsequence(_, _)
IsSubsequence(t, s) ==
  IF t = << >> THEN TRUE
  ELSE IF s = << >> THEN FALSE
  ELSE IF Head(t) = Head(s) THEN IsSubsequence(Tail(t), Tail(s))
  ELSE IsSubsequence(t, Tail(s))

\* C32 (as claimed): BaseProxyFetcher._filter_and_deduplicate returns at most
\* max_proxies entries, in the order of its input, whatever the input and the
\* country filter, entries kept through the address-prefix heuristic included.
C32_BaseAtMostMaxProxies ==
  b_pc = "done" =>
    /\ Len(b_st.unique) <= b_max
    /\ IsSubsequence(AddressesOf(b_st.unique), AddressesOf(b_proxies))

\* the entry the loop of BaseProxyFetcher._filter_and_deduplicate is at passes
\* the country filter: a well-formed address, and a country hint equal to the
\* target ignoring case, or an unknown one with an address prefix of the target
PassesCountryFilter(entry) ==
  /\ re_match(entry.proxy)
  /\ \/ upper(entry.country) = upper(b_country)
     \/ upper(entry.country) = "UNKNOWN" /\ ip_pattern_country(entry.proxy) = b_country

\* C33: with a country filter set, a pass of the loop of
\* BaseProxyFetcher._filter_and_deduplicate retains the entry it is at exactly
\* when the entry has a well-formed address and its country hint equals the
\* target ignoring case, or its hint is unknown and the address-prefix
\* heuristic yields the target; an entry tagged with another known country is
\* never retained, and the entries retained before stay as they are.
C33_BaseCountryFilter ==
  [][(b_pc = "loop" /\ b_i' = b_i + 1 /\ b_country # "") =>
       LET entry == b_proxies[b_i]
           n == Len(b_st.unique)
       IN /\ SubSeq(b_st'.unique, 1, n) = b_st.unique
          /\ PassesCountryFilter(entry) =>
               /\ Len(b_st'.unique) = n + 1
               /\ b_st'.unique[n + 1].proxy = entry.proxy
               /\ upper(b_st'.unique[n + 1].country) = b_country
          /\ ~PassesCountryFilter(entry) => b_st'.unique = b_st.unique
          /\ upper(entry.country) \notin {b_country, "UNKNOWN"} =>
               b_st'.unique = b_st.unique]_vars

\* a call with target DE has returned: an entry whose address went through the
\* heuristic was kept, with DE written into it in the caller's list as well,
\* and an entry tagged US was dropped
C33_Witness ==
  /\ b_pc = "done" /\ b_country = "DE" /\ Len(b_proxies) > Len(b_st.unique)
  /\ \E i \in 1..Len(b_proxies) : b_proxies[i].country = "US" /\ re_match(b_proxies[i].proxy)
  /\ \E i \in 1..Len(b_proxies) : \E k \in 1..Len(b_st.unique) :
       /\ b_proxies[i].proxy \in DOMAIN b_st.geo_cache
       /\ b_proxies[i].country = "DE" /\ b_st.unique[k] = b_proxies[i]

\* C34 (as claimed): with a country filter set, ProxyFetcher's
\* _filter_and_deduplicate keeps every first occurrence with a well-formed
\* address whose country hint equals the target ignoring case, such as the
\* hint 'us' for the target 'US'.
C34_HintMatchesIgnoringCase ==
  (f_pc = "done" /\ f_out.raised = "" /\ f_country # "") =>
    \A i \in FirstOccurrences :
      (re_match(f_all[i].proxy) /\ upper(f_all[i].country) = fetcher_country(f_country)) =>
        \E k \in 1..Len(f_out.proxies) : f_out.proxies[k] = f_all[i]

\* transparent < anonymous < elite
TierRank(anonymity) ==
  CASE anonymity = "transparent" -> 1
    [] anonymity = "anonymous" -> 2
    [] anonymity = "elite" -> 3

\* C38 (as claimed): ProxyFilter.filter_proxies returns no proxy whose known
\* anonymity tier is below min_anonymity, for every min_anonymity, the default
\* 'anonymous' included, and every proxy it returns has an address of the form
\* IPv4:port.
C38_FilterRespectsMinAnonymity ==
  p_pc = "done" =>
    \A k \in 1..Len(p_out) :
      /\ WellFormed(p_out[k].proxy) /\ octets_in_range(p_out[k].proxy)
      /\ p_out[k].anonymity \in {"transparent", "anonymous", "elite"} =>
           TierRank(p_out[k].anonymity) >= TierRank(p_min)

\* C40 (as claimed): save_proxies never raises, and a save that fails, because
\* an entry cannot be serialized or the write breaks off, leaves the persisted
\* collection as it was, so that a load after it returns the entries of the
\* last successful save.
C40_FailedSaveKeepsFile ==
  (LastIsSave /\ s_last.io # "ok") => s_file = s_last.before

\* the orders in which the tasks of the sources can be taken
TaskOrders == {o \in [1..NumSources -> Sources] : \A i, j \in 1..NumSources : i # j => o[i] # o[j]}

\* the complete lists the tasks returned, concatenated in the order `order`
RECURSIVE Concatenated(_)
Concatenated(order) ==
  IF order = << >> THEN << >>
  ELSE fetch_from_source(f_done[Head(order)]) \o Concatenated(Tail(order))

RECURSIVE TotalReturned(_)
TotalReturned(S) ==
  IF S = {} THEN 0
  ELSE LET s == CHOOSE x \in S : TRUE
       IN Len(fetch_from_source(f_done[s])) + TotalReturned(S \ {s})

\* C36: the fan-in loses no update: in whatever order the tasks complete, the
\* combined list holds as many entries as the tasks whose futures were yielded
\* returned, and once every future has been yielded it is the concatenation,
\* in some order of the tasks, of the complete lists they returned.
C36_FanInLosesNothing ==
  f_pc \in {"running", "done"} =>
    /\ Len(f_all) = TotalReturned(Range(f_order))
    /\ Len(f_order) = NumSources =>
         \E order \in TaskOrders : f_all = Concatenated(order)

\* every task returned candidates, the last source completed first, and the
\* combined list holds the lists in completion order
C36_Witness ==
  /\ f_pc = "done" /\ f_order[1] = NumSources
  /\ \A s \in Sources : f_done[s].kind = "ok" /\ f_done[s].proxies # << >>
  /\ f_all = Concatenated(f_order)

\* the set of addresses fetch_proxies returns when the tasks complete in the
\* order `order`
AddressSet(order) ==
  LET out == fetch_proxies(Delivered(order), fetcher_country(f_country))
  IN {out.proxies[k].proxy : k \in 1..Len(out.proxies)}

\* every list a task returned is one the adapters of this fetcher can return
AdaptersScreened ==
  \A s \in Sources : \A k \in 1..Len(f_done[s].proxies) :
    parser_emits(f_done[s].proxies[k], fetcher_country(f_country))

\* C39: the set of addresses fetch_proxies returns does not depend on the
\* order in which the source tasks complete: whatever lists the adapters
\* returned, every completion order of the same tasks gives the set of
\* addresses that was returned.
C39_OrderIndependentAddresses ==
  (f_pc = "done" /\ AdaptersScreened) =>
    \A order \in TaskOrders :
      AddressSet(order) = {f_out.proxies[k].proxy : k \in 1..Len(f_out.proxies)}

\* with a country filter, two sources returned the same address and the last
\* source completed first; the address was returned once
C39_Witness ==
  /\ f_pc = "done" /\ f_country = "US" /\ AdaptersScreened /\ f_order[1] = NumSources
  /\ Len(f_out.proxies) = 1
  /\ \E s, t \in Sources :
       /\ s # t /\ f_done[s].proxies # << >> /\ f_done[t].proxies # << >>
       /\ f_done[s].proxies[1].proxy = f_done[t].proxies[1].proxy
       /\ f_out.proxies[1].proxy = f_done[s].proxies[1].proxy

\* C35: fetch_proxies starts one task per configured source, and at every
\* moment the number of source tasks executing at the same time is at most
\* min(number of sources, 5).
C35_BoundedPool ==
  /\ Len(e_task) <= e_n
  /\ e_pc \in {"running", "done"} => DOMAIN e_task = 1..e_n
  /\ Cardinality(Executing) <= e_n
  /\ Cardinality(Executing) <= PoolLimit

\* more sources than workers: five tasks execute and the sixth waits in the
\* queue
C35_Witness ==
  /\ e_pc = "running" /\ e_n > PoolLimit
  /\ Cardinality(Executing) = PoolLimit
  /\ \E s \in 1..e_n : e_task[s] = "queued"

\* C37 (as claimed): no field of the fetcher, its geolocation cache in
\* particular, is written by two source worker tasks that run at the same
\* time.
C37_NoSharedWritesByWorkers ==
  PoolOpen => Cardinality(Executing \cap e_wrote) <= 1

====
